---- MODULE Spec2Model ----
(***************************************************************************)
(* Model of the intraday momentum backtest of 10-days-MA-touch:            *)
(*   src/backtest_intraday.py  _add_minutes, _pick_price, simulate_day,    *)
(*                             simulate_day_v2, run_grid_search_v2         *)
(* and of the mean-reversion signal of                                     *)
(*   src/kospi_sp_beta.py      calculate_signal, run                       *)
(*                                                                         *)
(* A time of day "HH:MM" is modelled by its minute of the day (09:00 is    *)
(* 540); for zero-padded labels the string order the code uses is the      *)
(* order of these numbers.  A float is modelled by an exact rational       *)
(* [num, den] in lowest terms.  Optional[x] is modelled by a sequence of   *)
(* length at most one: None is << >> and a value x is << x >>.             *)
(***************************************************************************)
EXTENDS Integers, Sequences, FiniteSets, TLC

VARIABLES
    day,      \* the rows (time, close) of the DataFrame handed to a call
    call,     \* the function called last and its arguments
    frame,    \* the local variables of that call when it returned or raised
    df,       \* the rows (date, time, close) of the dataset of a grid search
    gcall,    \* the arguments of the run_grid_search_v2 call, once made
    gret,     \* what that call returned or raised
    daily_rets, \* the returns collected for one cell of the grid
    cell,     \* what the loop body did with them: the row appended to results
    par,      \* the cells of a grid evaluated in any order and merged
    hist,     \* the rows of the combined series handed to calculate_signal
    res,      \* the call of calculate_signal and the dict it returned
    trade,    \* run() after the signal: the positions and the orders sent
    mon,      \* the loop of monitor(): its locals, its polls and its alerts
    post,     \* one call of KiwoomREST._post_json: its attempts and its end
    live,     \* the live strategy run(): its inputs and the orders it sent
    fnet      \* the cache of _find_prev_foreign_net and the fetches made

svars == <<day, call, frame>>
gvars == <<df, gcall, gret>>
cvars == <<daily_rets, cell>>
kvars == <<hist, res, trade>>
ovars == <<mon, post, live, fnet>>
vars == <<day, call, frame, df, gcall, gret, daily_rets, cell, par,
          hist, res, trade, mon, post, live, fnet>>

-----------------------------------------------------------------------------
(* Bounds and input domains                                                *)

MaxLen == 3

Times == {540, 542, 545}
Targets == Times \cup {539}
Prices == {0, 100, 101, 110}
ForeignNets == {<< >>, <<-1>>, <<0>>, <<1>>}
\* (foreign_filter, foreign_net) of a simulate_day_v2 call
FilterArgs == ({TRUE} \X ForeignNets) \cup {<<FALSE, << >> >>}
\* (entry, exit) of a simulate_day call, as minutes after 09:00
SimDayTimes == {<<2, 5>>, <<5, 2>>}
BaseTimes == {540, 542}
NValues == {-1, 2, 5}
MValues == {2, 5, 898}

None == << >>
Some(x) == <<x>>

MaxDates == 2

MaxRets == 3

GridPrices == {0, 100, 200}
\* the shapes of a trading day of the dataset: a full day with a 09:00 and
\* a 09:05 row, a day with only one of them
GridDays ==
    {<<[time |-> 540, close |-> p], [time |-> 545, close |-> q]>> :
        p \in GridPrices, q \in GridPrices}
    \cup {<<[time |-> t, close |-> p]>> : t \in {540, 545}, p \in GridPrices}
GridNValues == {<<5>>, <<0, 5>>, <<5, 0>>}
GridMValues == {<<5>>, <<-1, 5>>, <<5, 0>>}
\* no map, a positive value for every date, a positive value for date 1 only
GridMaps ==
    {<< >>, <<[d \in 1..MaxDates |-> <<1>>]>>, <<[d \in {1} |-> <<1>>]>>}
\* (foreign_filter, foreign_net_map) of a run_grid_search_v2 call
GridFilterArgs == ({TRUE} \X GridMaps) \cup {<<FALSE, << >> >>}
\* the days of the datasets whose cells are evaluated in any order: a rise,
\* a fall, a flat day, a base price of 0, a day without a 09:00 row
ParDays ==
    {<<[time |-> 540, close |-> 100], [time |-> 545, close |-> 200]>>,
     <<[time |-> 540, close |-> 200], [time |-> 545, close |-> 100]>>,
     <<[time |-> 540, close |-> 100], [time |-> 545, close |-> 100]>>,
     <<[time |-> 540, close |-> 0], [time |-> 545, close |-> 100]>>,
     <<[time |-> 545, close |-> 100]>>}
\* the grids whose cells are evaluated in any order
ParNValues == {<<5, 0>>}
ParMValues == {<<5, 0>>, <<-1, 5>>}
ParFilterArgs == {<<FALSE, << >> >>, <<TRUE, <<[d \in {1} |-> <<1>>]>> >>}

-----------------------------------------------------------------------------
(* Exact arithmetic standing for the float arithmetic of the code          *)

Abs(x) == IF x < 0 THEN -x ELSE x

RECURSIVE GCD(_, _)
GCD(a, b) == IF b = 0 THEN a ELSE GCD(b, a % b)

\* the fraction n/d (d > 0) in lowest terms
Rat(n, d) ==
    LET g == GCD(Abs(n), d)
    IN  [num |-> n \div g, den |-> d \div g]

\* a - b, over the least common denominator
RSub(a, b) ==
    LET g == GCD(a.den, b.den)
    IN  Rat(a.num * (b.den \div g) - b.num * (a.den \div g),
            a.den * (b.den \div g))

COST_ROUNDTRIP == Rat(5, 10000)

Costs == {COST_ROUNDTRIP}
\* daily returns of a cell: +0.10, -0.20, +0.05, -0.10, -1 and -1.10
RetValues ==
    {Rat(1, 10), Rat(-1, 5), Rat(1, 20), Rat(-1, 10), Rat(-1, 1), Rat(-11, 10)}
GridCosts == {Rat(1, 10), Rat(0, 1)}

-----------------------------------------------------------------------------
(* binary64.  The values of the statistics are kept exact, but the test    *)
(* "vol > 0" of the Sharpe ratio is decided by the rounded arithmetic: the *)
(* operators below follow IEEE 754 binary64 with round to nearest, ties to *)
(* even (53 significant bits; the exponent range is not reached by the     *)
(* values of this model).  A natural number of any size is the sequence of *)
(* its digits in base LimbBase, lowest first, without a leading zero.      *)

LimbBase == 32768

RECURSIVE BFromInt(_)
BFromInt(n) ==
    IF n = 0 THEN << >> ELSE <<n % LimbBase>> \o BFromInt(n \div LimbBase)

RECURSIVE BToInt(_)
BToInt(x) == IF x = << >> THEN 0 ELSE Head(x) + LimbBase * BToInt(Tail(x))

RECURSIVE BNorm(_)
BNorm(x) ==
    IF x # << >> /\ x[Len(x)] = 0 THEN BNorm(SubSeq(x, 1, Len(x) - 1)) ELSE x

RECURSIVE BAddC(_, _, _)
BAddC(x, y, c) ==
    IF x = << >> /\ y = << >> THEN BFromInt(c)
    ELSE LET a == IF x = << >> THEN 0 ELSE Head(x)
             b == IF y = << >> THEN 0 ELSE Head(y)
             s == a + b + c
         IN  <<s % LimbBase>>
                 \o BAddC(IF x = << >> THEN x ELSE Tail(x),
                          IF y = << >> THEN y ELSE Tail(y), s \div LimbBase)

BAdd(x, y) == BAddC(x, y, 0)

RECURSIVE BSubC(_, _, _)
BSubC(x, y, c) ==
    IF x = << >> THEN << >>
    ELSE LET b == IF y = << >> THEN 0 ELSE Head(y)
             s == Head(x) - b - c
         IN  <<IF s < 0 THEN s + LimbBase ELSE s>>
                 \o BSubC(Tail(x), IF y = << >> THEN y ELSE Tail(y),
                          IF s < 0 THEN 1 ELSE 0)

\* x - y for x >= y
BSub(x, y) == BNorm(BSubC(x, y, 0))

RECURSIVE BLessAt(_, _, _)
BLessAt(x, y, i) ==
    IF i = 0 THEN FALSE
    ELSE IF x[i] # y[i] THEN x[i] < y[i]
    ELSE BLessAt(x, y, i - 1)

BLess(x, y) ==
    IF Len(x) # Len(y) THEN Len(x) < Len(y) ELSE BLessAt(x, y, Len(x))

RECURSIVE BMulC(_, _, _)
BMulC(x, k, c) ==
    IF x = << >> THEN BFromInt(c)
    ELSE LET s == Head(x) * k + c
         IN  <<s % LimbBase>> \o BMulC(Tail(x), k, s \div LimbBase)

\* x * k for 0 < k < LimbBase
BMulSmall(x, k) == BMulC(x, k, 0)

RECURSIVE BDivAt(_, _, _, _)
BDivAt(x, k, i, r) ==
    IF i = 0 THEN [q |-> << >>, r |-> r]
    ELSE LET cur == r * LimbBase + x[i]
             rest == BDivAt(x, k, i - 1, cur % k)
         IN  [q |-> Append(rest.q, cur \div k), r |-> rest.r]

\* quotient and remainder of x by k, for 0 < k < LimbBase
BDivSmall(x, k) ==
    LET d == BDivAt(x, k, Len(x), 0) IN [q |-> BNorm(d.q), r |-> d.r]

BHalf(x) == BDivSmall(x, 2).q

BOdd(x) == x # << >> /\ x[1] % 2 = 1

\* x * 2^s
RECURSIVE BShl(_, _)
BShl(x, s) ==
    IF x = << >> \/ s = 0 THEN x
    ELSE IF s >= 15 THEN BShl(<<0>> \o x, s - 15)
    ELSE BMulSmall(x, 2^s)

\* the number of binary digits of x
BitLen(x) ==
    IF x = << >> THEN 0
    ELSE 15 * (Len(x) - 1)
             + (CHOOSE k \in 1..15 : 2^(k - 1) <= x[Len(x)] /\ x[Len(x)] < 2^k)

\* x \div 2^s, and whether a non-zero part was cut off
BShr(x, s) ==
    LET limbs == IF s \div 15 < Len(x) THEN s \div 15 ELSE Len(x)
        d == BDivSmall(SubSeq(x, limbs + 1, Len(x)), 2^(s % 15))
    IN  [q |-> d.q,
         sticky |-> d.r # 0 \/ \E i \in 1..limbs : x[i] # 0]

MantissaBits == 53

\* the magnitude m * 2^e (sticky: a non-zero part below m was cut off)
\* rounded to MantissaBits significant bits
\* y holds one bit more than is kept, h is y without that bit
RoundHalf(y, h, e, sticky) ==
    [m |-> IF BOdd(y.q) /\ (sticky \/ y.sticky \/ BOdd(h))
           THEN BAdd(h, <<1>>) ELSE h,
     e |-> e]

RoundShifted(y, e, sticky) == RoundHalf(y, BHalf(y.q), e, sticky)

\* s is the number of bits to drop
Round53At(m, e, sticky, s) ==
    IF s <= 0 THEN [m |-> m, e |-> e]
    ELSE RoundShifted(BShr(m, s - 1), e + s, sticky)

Round53(m, e, sticky) == Round53At(m, e, sticky, BitLen(m) - MantissaBits)

\* the same value with an odd m
RECURSIVE Canon(_, _)
Canon(m, e) ==
    IF m = << >> THEN [m |-> m, e |-> e]
    ELSE IF m[1] = 0 THEN Canon(Tail(m), e + 15)
    ELSE LET z == CHOOSE k \in 0..14 :
                      m[1] % 2^k = 0 /\ m[1] % 2^(k + 1) # 0
         IN  [m |-> BDivSmall(m, 2^z).q, e |-> e + z]

F64Zero == [neg |-> FALSE, m |-> << >>, e |-> 0]

\* the binary64 (-1)^neg * m * 2^e, m odd, nearest to a magnitude
MkCanon(neg, c) ==
    IF c.m = << >> THEN F64Zero ELSE [neg |-> neg, m |-> c.m, e |-> c.e]

MkRounded(neg, r) == MkCanon(neg, Canon(r.m, r.e))

MkF64(neg, m, e, sticky) == MkRounded(neg, Round53(m, e, sticky))

\* bits kept below the binary point of a quotient before it is rounded
GuardBits == 70

\* the binary64 nearest to the rational r (0 < r.den < LimbBase)
\* a quotient d with GuardBits bits below the binary point of 2^e
F64OfQuot(neg, d, e) == MkF64(neg, d.q, e - GuardBits, d.r # 0)

F64(r) ==
    IF r.num = 0 THEN F64Zero
    ELSE F64OfQuot(r.num < 0,
                   BDivSmall(BShl(BFromInt(Abs(r.num)), GuardBits), r.den), 0)

F64Neg(a) == IF a.m = << >> THEN a ELSE [a EXCEPT !.neg = ~a.neg]

\* a + b
\* the magnitudes x and y are in units of 2^e0
AddAligned(aneg, bneg, x, y, e0) ==
    IF aneg = bneg THEN MkF64(aneg, BAdd(x, y), e0, FALSE)
    ELSE IF BLess(x, y) THEN MkF64(bneg, BSub(y, x), e0, FALSE)
    ELSE MkF64(aneg, BSub(x, y), e0, FALSE)

AddAt(a, b, e0) ==
    AddAligned(a.neg, b.neg, BShl(a.m, a.e - e0), BShl(b.m, b.e - e0), e0)

F64Add(a, b) == AddAt(a, b, IF a.e < b.e THEN a.e ELSE b.e)

\* a / k for an integer 0 < k < LimbBase
F64DivInt(a, k) ==
    IF a.m = << >> THEN F64Zero
    ELSE F64OfQuot(a.neg, BDivSmall(BShl(a.m, GuardBits), k), a.e)

\* values.sum() of the first i values, added from the first on
RECURSIVE F64Sum(_, _)
F64Sum(fs, i) == IF i = 0 THEN F64Zero ELSE F64Add(F64Sum(fs, i - 1), fs[i])

-----------------------------------------------------------------------------
(* _add_minutes: datetime(2000,1,1,h,m) + timedelta(minutes) printed with  *)
(* "%H:%M": the date is dropped, so the label wraps around midnight.       *)

MinutesPerDay == 1440

_add_minutes(hhmm, minutes) == (hhmm + minutes) % MinutesPerDay

-----------------------------------------------------------------------------
(* _pick_price                                                             *)

\* day.loc[mask] is SelectSeq: the rows that satisfy the mask, in the order
\* of the day

\* _pick_row taking the first earlier row where the code takes the last
_pick_row_first(d, target) ==
    LET exact  == SelectSeq(d, LAMBDA r : r.time = target)
        before == SelectSeq(d, LAMBDA r : r.time < target)
    IN  IF exact # << >> THEN Some(exact[1])
        ELSE IF before # << >> THEN Some(before[1])
        ELSE None

\* _pick_row falling back on the nearest row where the code returns None
_pick_row_nearest(d, target) ==
    LET exact  == SelectSeq(d, LAMBDA r : r.time = target)
        before == SelectSeq(d, LAMBDA r : r.time < target)
    IN  IF exact # << >> THEN Some(exact[1])
        ELSE IF before # << >> THEN Some(before[Len(before)])
        ELSE IF d # << >> THEN Some(d[1])
        ELSE None

\* the row _pick_price takes its close from
_pick_row(d, target) ==
    LET exact  == SelectSeq(d, LAMBDA r : r.time = target)
        before == SelectSeq(d, LAMBDA r : r.time < target)
    IN  IF exact # << >> THEN Some(exact[1])
        ELSE IF before # << >> THEN Some(before[Len(before)])
        ELSE None

_pick_price(d, target) ==
    LET row == _pick_row(d, target)
    IN  IF row = None THEN None ELSE Some(row[1].close)

-----------------------------------------------------------------------------
(* The steps of simulate_day_v2 and simulate_day                           *)

\* FilterFails letting a zero value pass
FilterFails_neg(foreign_filter, foreign_net) ==
    foreign_filter /\ (foreign_net = None \/ foreign_net[1] < 0)

\* the guard of the first return: the external filter rejects the day
FilterFails(foreign_filter, foreign_net) ==
    foreign_filter /\ (foreign_net = None \/ foreign_net[1] <= 0)

\* BaseTimeUsed shifting whatever auto_base_time says
BaseTimeUsed_always(d, base_time, auto_base_time) ==
    IF SelectSeq(d, LAMBDA r : r.time <= base_time) = << >>
    THEN d[1].time
    ELSE base_time

\* base_time_used: the configured base, or the first row's time when
\* auto_base_time is set and no row is at or before the configured base
BaseTimeUsed(d, base_time, auto_base_time) ==
    IF auto_base_time /\ SelectSeq(d, LAMBDA r : r.time <= base_time) = << >>
    THEN d[1].time
    ELSE base_time

\* DayUptoExit keeping the whole day
DayUptoExit_all(d, exit_time) == d

\* day_upto_exit = day[day["time"] <= exit_time]
DayUptoExit(d, exit_time) == SelectSeq(d, LAMBDA r : r.time <= exit_time)

\* day[(day["time"] >= "09:00") & (day["time"] <= exit_time)] of simulate_day
DayWindow(d, exit_time) == SelectSeq(d, LAMBDA r : r.time >= 540 /\ r.time <= exit_time)

MissingPrice(open_base, ref_close, exit_px) ==
    open_base = None \/ ref_close = None \/ exit_px = None

\* Direction resolving a tie upwards
Direction_ge(ref_close, open_base) == IF ref_close >= open_base THEN 1 ELSE -1

Direction(ref_close, open_base) == IF ref_close > open_base THEN 1 ELSE -1

\* direction * (exit_px - open_base) / open_base, for open_base # 0
GrossRet(direction, exit_px, open_base) ==
    Rat(direction * (exit_px - open_base), open_base)

\* NetRet charging the cost on entry and on exit
NetRet_twice(gross_ret, cost) == RSub(RSub(gross_ret, cost), cost)

NetRet(gross_ret, cost) == RSub(gross_ret, cost)

\* the locals of a call that has set none of them
NoFrame ==
    [line |-> 0, result |-> None, exc |-> "",
     row |-> None, price |-> None,
     base_time_used |-> None, entry_time |-> None, exit_time |-> None,
     open_base |-> None, ref_close |-> None, exit_px |-> None,
     direction |-> None, gross_ret |-> None]

\* the part of both simulators from the three lookups on: rows is the day
\* cut at the exit time, f the locals set so far, l the lines of the
\* "return None" for a missing price, of the division and of the last return
Trade(rows, f, t_base, t_entry, t_exit, cost, l) ==
    LET open_base == _pick_row(rows, t_base)
        ref_close == _pick_row(rows, t_entry)
        exit_px   == _pick_row(rows, t_exit)
        g == [f EXCEPT !.open_base = open_base, !.ref_close = ref_close,
                       !.exit_px = exit_px]
        direction == Direction(ref_close[1].close, open_base[1].close)
        gross_ret == GrossRet(direction, exit_px[1].close, open_base[1].close)
    IN  IF MissingPrice(open_base, ref_close, exit_px)
        THEN [g EXCEPT !.line = l[1]]
        ELSE IF open_base[1].close = 0
        THEN \* float division by zero
             [g EXCEPT !.line = l[2], !.exc = "ZeroDivisionError",
                       !.direction = Some(direction)]
        ELSE [g EXCEPT !.line = l[3],
                       !.direction = Some(direction),
                       !.gross_ret = Some(gross_ret),
                       !.result = Some(NetRet(gross_ret, cost))]

simulate_day_v2(d, foreign_net, cost, base_time, n, m, auto_base_time, foreign_filter) ==
    LET base_time_used == BaseTimeUsed(d, base_time, auto_base_time)
        entry_time == _add_minutes(base_time_used, n)
        exit_time  == _add_minutes(base_time_used, m)
        day_upto_exit == DayUptoExit(d, exit_time)
        f == [NoFrame EXCEPT !.base_time_used = Some(base_time_used),
                             !.entry_time = Some(entry_time),
                             !.exit_time = Some(exit_time)]
    IN  IF FilterFails(foreign_filter, foreign_net)
        THEN [NoFrame EXCEPT !.line = 391]
        ELSE IF d = << >>
        THEN [NoFrame EXCEPT !.line = 393]
        ELSE IF day_upto_exit = << >>
        THEN [f EXCEPT !.line = 404]
        ELSE Trade(day_upto_exit, f, base_time_used, entry_time, exit_time,
                   cost, <<410, 413, 414>>)

simulate_day(d, foreign_net, cost, entry_time, exit_time) ==
    LET window == DayWindow(d, exit_time)
        f == [NoFrame EXCEPT !.base_time_used = Some(540),
                             !.entry_time = Some(entry_time),
                             !.exit_time = Some(exit_time)]
    IN  IF FilterFails(TRUE, foreign_net)
        THEN [NoFrame EXCEPT !.line = 313]
        ELSE IF window = << >>
        THEN [f EXCEPT !.line = 317]
        ELSE Trade(window, f, 540, entry_time, exit_time, cost,
                   <<323, 326, 328>>)

-----------------------------------------------------------------------------
(* run_grid_search_v2                                                      *)

\* a * b, the common factors taken out before the products
RMul(a, b) ==
    LET g == GCD(Abs(a.num), b.den)
        h == GCD(Abs(b.num), a.den)
    IN  Rat((a.num \div g) * (b.num \div h), (a.den \div h) * (b.den \div g))

RAdd(a, b) ==
    LET g == GCD(a.den, b.den)
    IN  Rat(a.num * (b.den \div g) + b.num * (a.den \div g),
            a.den * (b.den \div g))

ROne == Rat(1, 1)

\* the dates of the rows of a dataset, ascending, each once
RECURSIVE SortedDates(_)
SortedDates(S) ==
    IF S = {} THEN << >>
    ELSE LET lo == CHOOSE x \in S : \A y \in S : x <= y
         IN  <<lo>> \o SortedDates(S \ {lo})

\* df.groupby("date"): one group per date in ascending date order, the rows
\* of a group in the order of the dataset
GroupBy(rows) ==
    LET dates == SortedDates({rows[i].date : i \in DOMAIN rows})
    IN  [k \in DOMAIN dates |-> SelectSeq(rows, LAMBDA r : r.date = dates[k])]

\* foreign_net_map.get(date), and None when there is no map
ForeignNetOf(foreign_net_map, date) ==
    IF foreign_net_map = None THEN None
    ELSE IF date \in DOMAIN foreign_net_map[1] THEN foreign_net_map[1][date]
    ELSE None

\* itertools.product(n_values, m_values): the first factor varies slowest
Product(n_values, m_values) ==
    [k \in 1..(Len(n_values) * Len(m_values)) |->
        <<n_values[((k - 1) \div Len(m_values)) + 1],
          m_values[((k - 1) % Len(m_values)) + 1]>>]

\* the loop over the days of one cell, from group i on: daily_rets, or the
\* exception of the first day that raises
RECURSIVE DailyRets(_, _, _, _, _)
DailyRets(by_date, i, n, m, a) ==
    IF i > Len(by_date) THEN [exc |-> "", rets |-> << >>]
    ELSE LET d == by_date[i]
             foreign_net == ForeignNetOf(a.foreign_net_map, d[1].date)
             r == simulate_day_v2(d, foreign_net, a.cost, a.base_time, n, m,
                                  a.auto_base_time, a.foreign_filter)
             rest == DailyRets(by_date, i + 1, n, m, a)
         IN  IF r.exc # "" THEN [exc |-> r.exc, rets |-> << >>]
             ELSE IF rest.exc # "" THEN rest
             ELSE [exc |-> "", rets |-> r.result \o rest.rets]

\* (1 + rets).prod()
RECURSIVE Prod1p(_)
Prod1p(rets) ==
    IF rets = << >> THEN ROne
    ELSE RMul(RAdd(ROne, Head(rets)), Prod1p(Tail(rets)))

CumReturn(rets) == RSub(Prod1p(rets), ROne)

RZero == Rat(0, 1)

\* a < b, by the integer parts and then the fractions (no product is formed)
RECURSIVE RLess(_, _)
RLess(a, b) ==
    LET fa == a.num \div a.den
        fb == b.num \div b.den
        ra == a.num % a.den
        rb == b.num % b.den
    IN  IF fa # fb THEN fa < fb
        ELSE IF rb = 0 THEN FALSE
        ELSE IF ra = 0 THEN TRUE
        ELSE RLess([num |-> b.den, den |-> rb], [num |-> a.den, den |-> ra])

\* a / b for b # 0
RDiv(a, b) ==
    IF b.num > 0 THEN RMul(a, [num |-> b.den, den |-> b.num])
    ELSE RMul(a, [num |-> -b.den, den |-> -b.num])

RECURSIVE RSum(_)
RSum(xs) == IF xs = << >> THEN RZero ELSE RAdd(Head(xs), RSum(Tail(xs)))

\* rets.mean()
Mean(rets) == RDiv(RSum(rets), Rat(Len(rets), 1))

\* rets.std(ddof=1) squared, for two returns or more
Variance(rets) ==
    LET mu == Mean(rets)
        sq == [i \in DOMAIN rets |-> RMul(RSub(rets[i], mu), RSub(rets[i], mu))]
    IN  RDiv(RSum(sq), Rat(Len(rets) - 1, 1))

\* the trading days of a year under the square root
AnnualDays == 252

\* vol squared, as v * 2^exp2.  rets.std(ddof=1) is NaN for a single
\* return.  The value is the exact variance where that is not 0.  Where it
\* is 0 all returns hold one value x, and what std computes is followed in
\* binary64: avg = values.sum() / count, then the squares of avg - x summed
\* and divided by count - 1 (x is held as the binary64 nearest to it).
\* count equal deviations of j * 2^e from the mean
Vol2OfDev(count, j, e) ==
    [nan |-> FALSE, v |-> Rat(count * j * j, count - 1), exp2 |-> 2 * e]

Vol2OfAvg(fs, dev) == Vol2OfDev(Len(fs), BToInt(dev.m), dev.e)

Vol2OfFloats(fs) ==
    Vol2OfAvg(fs, F64Add(F64DivInt(F64Sum(fs, Len(fs)), Len(fs)), F64Neg(fs[1])))

Vol2Exact(rets, var) ==
    IF var # RZero THEN [nan |-> FALSE, v |-> var, exp2 |-> 0]
    ELSE Vol2OfFloats([i \in DOMAIN rets |-> F64(rets[i])])

Vol2(rets) ==
    IF Len(rets) < 2 THEN [nan |-> TRUE, v |-> RZero, exp2 |-> 0]
    ELSE Vol2Exact(rets, Variance(rets))

\* sharpe: (mean / vol) * sqrt(252) when vol > 0, else 0.0; NaN > 0 is
\* false.  The value is irrational: it is kept as its sign and its square,
\* the square being sq * 2^exp2.
SharpeOf(mu, vol2) ==
    IF vol2.nan \/ vol2.v = RZero
    THEN [sign |-> 0, sq |-> RZero, exp2 |-> 0]
    ELSE [sign |-> IF mu.num > 0 THEN 1 ELSE IF mu.num < 0 THEN -1 ELSE 0,
          sq |-> RMul(Rat(AnnualDays, 1), RDiv(RMul(mu, mu), vol2.v)),
          exp2 |-> IF mu.num = 0 THEN 0 ELSE -vol2.exp2]

Sharpe(rets) == SharpeOf(Mean(rets), Vol2(rets))

\* curve = (1 + rets).cumprod()
CumProd(rets) == [i \in DOMAIN rets |-> Prod1p(SubSeq(rets, 1, i))]

\* CumMaxAt taking the curve itself for its running peak
CumMaxAt_last(curve, i) == curve[i]

\* curve.cummax()
RECURSIVE CumMaxAt(_, _)
CumMaxAt(curve, i) ==
    IF i = 1 THEN curve[1]
    ELSE LET p == CumMaxAt(curve, i - 1)
         IN  IF RLess(p, curve[i]) THEN curve[i] ELSE p

\* dd = curve / curve.cummax() - 1, entry i: a float, or NaN where the peak
\* is 0 (the curve is 0 there as well: 0.0 / 0.0)
Drawdown(curve, i) ==
    LET p == CumMaxAt(curve, i)
    IN  IF p.num = 0 THEN [nan |-> TRUE, v |-> RZero]
        ELSE [nan |-> FALSE, v |-> RSub(RDiv(curve[i], p), ROne)]

\* mdd = dd.min(): the least entry that is not NaN, NaN when all are
MaxDrawdown(rets) ==
    LET curve == CumProd(rets)
        dd == {Drawdown(curve, i) : i \in DOMAIN rets}
        nums == {x.v : x \in {y \in dd : ~y.nan}}
    IN  IF nums = {} THEN [nan |-> TRUE, v |-> RZero]
        ELSE [nan |-> FALSE,
              v |-> CHOOSE x \in nums : \A y \in nums : ~RLess(y, x)]

\* HasTrades reporting every cell
HasTrades_all(rets) == TRUE

\* the negation of "if not daily_rets: continue"
HasTrades(rets) == rets # << >>

\* the dict appended to results for one cell
ResultRow(n, m, rets) ==
    [n |-> n, m |-> m, trades |-> Len(rets), cum_return |-> CumReturn(rets),
     sharpe |-> Sharpe(rets), mdd |-> MaxDrawdown(rets)]

\* the loop body for one cell: the exception of a day, or the rows (none
\* or one) the cell appends to results
CellResult(by_date, n, m, a) ==
    LET one == DailyRets(by_date, 1, n, m, a)
    IN  IF one.exc # "" THEN [exc |-> one.exc, results |-> << >>]
        ELSE [exc |-> "",
              results |-> IF HasTrades(one.rets)
                          THEN <<ResultRow(n, m, one.rets)>> ELSE << >>]

\* the loop over the cells, from cell k on: results, or the exception
RECURSIVE GridLoop(_, _, _, _)
GridLoop(by_date, cells, k, a) ==
    IF k > Len(cells) THEN [exc |-> "", results |-> << >>]
    ELSE LET one == CellResult(by_date, cells[k][1], cells[k][2], a)
             rest == GridLoop(by_date, cells, k + 1, a)
         IN  IF one.exc # "" THEN one
             ELSE IF rest.exc # "" THEN rest
             ELSE [exc |-> "", results |-> one.results \o rest.results]

\* RowLE ordering by the entry offset first
RowLE_nm(x, y) == x.n < y.n \/ (x.n = y.n /\ x.m <= y.m)

\* the order of sort_values(["m", "n"])
RowLE(x, y) == x.m < y.m \/ (x.m = y.m /\ x.n <= y.n)

\* x put behind the last row of a sorted table that is not after it
RECURSIVE InsertRow(_, _)
InsertRow(sorted, x) ==
    IF sorted = << >> THEN <<x>>
    ELSE IF RowLE(sorted[Len(sorted)], x) THEN Append(sorted, x)
    ELSE Append(InsertRow(SubSeq(sorted, 1, Len(sorted) - 1), x),
                sorted[Len(sorted)])

\* SortValues leaving the rows as they come
SortValues_none(rows) == rows

\* DataFrame(results).sort_values(["m", "n"]).reset_index(drop=True)
RECURSIVE SortValues(_)
SortValues(rows) ==
    IF rows = << >> THEN << >>
    ELSE InsertRow(SortValues(SubSeq(rows, 1, Len(rows) - 1)), rows[Len(rows)])

NoGridRet == [status |-> "none", exc |-> "", table |-> << >>]

run_grid_search_v2(rows, a) ==
    LET out == GridLoop(GroupBy(rows), Product(a.n_values, a.m_values), 1, a)
    IN  IF out.exc # ""
        THEN [status |-> "raised", exc |-> out.exc, table |-> << >>]
        ELSE [status |-> "returned", exc |-> "",
              table |-> SortValues(out.results)]

NoPar == [status |-> "none", pending |-> {}, results |-> << >>, table |-> << >>]

NoCell == [status |-> "collecting", results |-> << >>]

NoGridCall ==
    [fn |-> "none", n_values |-> << >>, m_values |-> << >>,
     cost |-> COST_ROUNDTRIP, foreign_net_map |-> None, base_time |-> 540,
     auto_base_time |-> TRUE, foreign_filter |-> TRUE]

-----------------------------------------------------------------------------
(* src/kospi_sp_beta.py: the signal of calculate_signal                    *)

ENTRY == Rat(215, 100)
EXIT == Rat(0, 1)
VIX_Q == Rat(94, 100)
FX_Q == Rat(96, 100)
STOP_LOSS_MULT == Rat(33, 10)

Sgn(v) == IF v > 0 THEN 1 ELSE IF v < 0 THEN -1 ELSE 0

RNeg(a) == [num |-> -a.num, den |-> a.den]

RSq(a) == RMul(a, a)

RLe(a, b) == ~RLess(b, a)

\* A z-score is a float that may be NaN or infinite; a finite one is the
\* quotient of a number by a square root and is kept as its sign and its
\* square.  Every comparison with NaN is false.
ZNaN == [k |-> "nan", sign |-> 0, sq |-> RZero]

ZInf(sign) == [k |-> "inf", sign |-> sign, sq |-> RZero]

ZNum(sign, sq) == [k |-> "num", sign |-> sign, sq |-> sq]

\* abs(z) > c, for c >= 0
AbsGt(z, c) == z.k = "inf" \/ (z.k = "num" /\ RLess(RSq(c), z.sq))

\* abs(z) <= c, for c >= 0
AbsLe(z, c) == z.k = "num" /\ RLe(z.sq, RSq(c))

\* ZLe taking an undefined z for a small one
ZLe_nan(z, c) ==
    CASE z.k = "nan" -> TRUE
      [] z.k = "inf" -> z.sign < 0
      [] OTHER -> IF c.num >= 0 THEN z.sign <= 0 \/ RLe(z.sq, RSq(c))
                  ELSE z.sign < 0 /\ RLe(RSq(c), z.sq)

\* z <= c
ZLe(z, c) ==
    CASE z.k = "nan" -> FALSE
      [] z.k = "inf" -> z.sign < 0
      [] OTHER -> IF c.num >= 0 THEN z.sign <= 0 \/ RLe(z.sq, RSq(c))
                  ELSE z.sign < 0 /\ RLe(RSq(c), z.sq)

\* ZGe leaving the threshold itself out
ZGe_strict(z, c) ==
    CASE z.k = "nan" -> FALSE
      [] z.k = "inf" -> z.sign > 0
      [] OTHER -> IF c.num < 0 THEN z.sign >= 0 \/ RLess(z.sq, RSq(c))
                  ELSE z.sign > 0 /\ RLess(RSq(c), z.sq)

\* z >= c
ZGe(z, c) ==
    CASE z.k = "nan" -> FALSE
      [] z.k = "inf" -> z.sign > 0
      [] OTHER -> IF c.num <= 0 THEN z.sign >= 0 \/ RLe(z.sq, RSq(c))
                  ELSE z.sign > 0 /\ RLe(RSq(c), z.sq)

\* RankLe letting an undefined rank pass
RankLe_nan(rank, q) == rank = None \/ RLe(rank[1], q)

\* rank <= q for a rank that may be NaN (None)
RankLe(rank, q) == rank # None /\ RLe(rank[1], q)

\* from "today_row = full_df.iloc[-1]" to the return of calculate_signal
ResolveSignal(today_row) ==
    LET is_vix_safe == RankLe(today_row.vix_rank, VIX_Q)
        is_fx_safe == RankLe(today_row.fx_shock, FX_Q)
        is_allowed == is_vix_safe /\ is_fx_safe
        z_score == today_row.z
        signal ==
            IF ~is_allowed THEN "CUT_RISK"
            ELSE IF AbsGt(z_score, RMul(ENTRY, STOP_LOSS_MULT)) THEN "STOP_LOSS"
            ELSE IF ZLe(z_score, RNeg(ENTRY)) THEN "LONG"
            ELSE IF ZGe(z_score, ENTRY) THEN "SHORT"
            ELSE IF AbsLe(z_score, EXIT) THEN "NEUTRAL"
            ELSE "HOLD"
    IN  [z |-> z_score, vix_rank |-> today_row.vix_rank,
         fx_shock |-> today_row.fx_shock, allowed |-> is_allowed,
         signal |-> signal]

-----------------------------------------------------------------------------
(* src/kospi_sp_beta.py: the columns of calculate_signal.  A row holds the *)
(* date, the natural logarithms of kospi_t, SPX_t-1 and FX_t, and VIX_t-1; *)
(* a cell is None for NaN.  The windows are scaled down from 60 and 252.   *)

BETA_W == 2
RES_W == 2
W_FILTER == 2
MaxRows == 5

\* df.sort_values("공통날짜"): a stable insertion sort on the date
RECURSIVE SortByDate(_)
SortByDate(rows) ==
    IF rows = << >> THEN << >>
    ELSE LET x == rows[Len(rows)]
             init == SortByDate(SubSeq(rows, 1, Len(rows) - 1))
             k == Cardinality({i \in DOMAIN init : init[i].date <= x.date})
         IN  SubSeq(init, 1, k) \o <<x>> \o SubSeq(init, k + 1, Len(init))

\* pd.concat([df, new_row], ignore_index=True)
Concat(rows, new_row) == Append(rows, new_row)

RECURSIVE FfillAt(_, _)
FfillAt(col, i) ==
    IF i = 0 THEN None
    ELSE IF col[i] # None THEN col[i]
    ELSE FfillAt(col, i - 1)

\* .ffill() on one column
Ffill(col) == [i \in DOMAIN col |-> FfillAt(col, i)]

\* a column as the array it is held in
Column(col) == IF col = << >> THEN << >> ELSE col

\* a column of integers as a column of numbers
AsRat(col) ==
    [i \in DOMAIN col |-> IF col[i] = None THEN None ELSE Some(Rat(col[i][1], 1))]

\* .diff()
Diff(col) ==
    [i \in DOMAIN col |->
        IF i = 1 \/ col[i] = None \/ col[i - 1] = None THEN None
        ELSE Some(RSub(col[i][1], col[i - 1][1]))]

\* Shift1 taking the row after instead of the row before
Shift1_back(col) == [i \in DOMAIN col |-> IF i = Len(col) THEN None ELSE col[i + 1]]

\* Shift1 left out
Shift1_none(col) == col

\* .shift(1)
Shift1(col) == [i \in DOMAIN col |-> IF i = 1 THEN None ELSE col[i - 1]]

\* the window of w rows ending at row i holds w numbers (min_periods = w)
WindowFull(col, i, w) == i >= w /\ \A j \in (i - w + 1)..i : col[j] # None

\* the numbers of the window of w rows ending at row i
Window(col, i, w) == [j \in 1..w |-> col[i - w + j][1]]

\* covariance with ddof = 1
Cov(xs, ys) ==
    LET mx == Mean(xs)
        my == Mean(ys)
        pr == [i \in DOMAIN xs |-> RMul(RSub(xs[i], mx), RSub(ys[i], my))]
    IN  RDiv(RSum(pr), Rat(Len(xs) - 1, 1))

\* .rolling(w).mean()
RollingMean(col, w) ==
    [i \in DOMAIN col |->
        IF WindowFull(col, i, w) THEN Some(Mean(Window(col, i, w))) ELSE None]

\* .rolling(w).var(); .rolling(w).std() is its square root
RollingVar(col, w) ==
    [i \in DOMAIN col |->
        IF WindowFull(col, i, w) THEN Some(Variance(Window(col, i, w))) ELSE None]

\* x.rolling(w).cov(y)
RollingCov(x, y, w) ==
    [i \in DOMAIN x |->
        IF WindowFull(x, i, w) /\ WindowFull(y, i, w)
        THEN Some(Cov(Window(x, i, w), Window(y, i, w))) ELSE None]

\* the average rank of the last of w values, as a fraction of w
RankPct(less, eq, w) == Rat(2 * less + eq + 1, 2 * w)

\* .rolling(w).rank(pct=True) of a column of numbers
RollingRank(col, w) ==
    [i \in DOMAIN col |->
        IF WindowFull(col, i, w)
        THEN LET win == Window(col, i, w)
                 less == Cardinality({j \in 1..w : RLess(win[j], win[w])})
                 eq == Cardinality({j \in 1..w : win[j] = win[w]})
             IN  Some(RankPct(less, eq, w))
        ELSE None]

\* d / sqrt(v) for numbers d and v >= 0, as a float: 0/0 is NaN, d/0 +-inf
ZQuot(d, v) ==
    IF v.num = 0 THEN (IF d.num = 0 THEN ZNaN ELSE ZInf(Sgn(d.num)))
    ELSE ZNum(Sgn(d.num), RDiv(RSq(d), v))

\* (x - mean) / std by column, var being std squared
ZColumn(x, mean, var) ==
    [i \in DOMAIN x |->
        IF x[i] = None \/ mean[i] = None \/ var[i] = None THEN ZNaN
        ELSE ZQuot(RSub(x[i][1], mean[i][1]), var[i][1])]

\* abs(a) < abs(b) for floats that are not NaN
ZAbsLess(a, b) ==
    /\ a.k = "num"
    /\ b.k = "inf" \/ RLess(a.sq, b.sq)

ZAbsEq(a, b) == a.k = b.k /\ a.sq = b.sq

\* zcol.abs().rolling(w).rank(pct=True)
RollingRankAbs(zcol, w) ==
    [i \in DOMAIN zcol |->
        IF i >= w /\ \A j \in (i - w + 1)..i : zcol[j].k # "nan"
        THEN LET less == Cardinality({j \in (i - w + 1)..i : ZAbsLess(zcol[j], zcol[i])})
                 eq == Cardinality({j \in (i - w + 1)..i : ZAbsEq(zcol[j], zcol[i])})
             IN  Some(RankPct(less, eq, w))
        ELSE None]

\* full_df with the columns added by calculate_signal, row by row
FullDf(rows, new_row) ==
    LET raw == Column(Concat(SortByDate(rows), new_row))
        log_kospi == Column(AsRat(Ffill([i \in DOMAIN raw |-> raw[i].log_kospi])))
        log_spx == Column(AsRat(Ffill([i \in DOMAIN raw |-> raw[i].log_spx])))
        vix == Column(AsRat(Ffill([i \in DOMAIN raw |-> raw[i].vix])))
        log_fx == Column(AsRat(Ffill([i \in DOMAIN raw |-> raw[i].log_fx])))
        rK == Column(Diff(log_kospi))
        rS == Column(Diff(log_spx))
        rFX == Column(Diff(log_fx))
        cov == Column(RollingCov(rK, rS, BETA_W))
        var == Column(RollingVar(rS, BETA_W))
        beta == Column([i \in DOMAIN raw |->
                    IF cov[i] = None \/ var[i] = None \/ var[i][1].num = 0
                    THEN None ELSE Some(RDiv(cov[i][1], var[i][1]))])
        resid == Column([i \in DOMAIN raw |->
                     IF rK[i] = None \/ beta[i] = None \/ rS[i] = None THEN None
                     ELSE Some(RSub(rK[i][1], RMul(beta[i][1], rS[i][1])))])
        resid_mean == Column(Shift1(RollingMean(resid, RES_W)))
        resid_var == Column(Shift1(RollingVar(resid, RES_W)))
        z == Column(ZColumn(resid, resid_mean, resid_var))
        vix_rank == Column(Shift1(RollingRank(vix, W_FILTER)))
        fx_mean == Column(RollingMean(rFX, W_FILTER))
        fx_var == Column(RollingVar(rFX, W_FILTER))
        fx_z == Column(ZColumn(rFX, fx_mean, fx_var))
        fx_shock == Column(Shift1(RollingRankAbs(fx_z, W_FILTER)))
    IN  [i \in DOMAIN raw |->
            [date |-> raw[i].date, vix |-> vix[i], rS |-> rS[i], rFX |-> rFX[i],
             resid |-> resid[i], z |-> z[i], vix_rank |-> vix_rank[i],
             fx_z |-> fx_z[i], fx_shock |-> fx_shock[i]]]

\* calculate_signal: the columns, then the signal of the last row
calculate_signal(rows, new_row) ==
    LET full_df == FullDf(rows, new_row)
    IN  [fn |-> "calculate_signal",
         raw |-> [z |-> [k |-> "nan", milli |-> 0], vix |-> None, fx |-> None],
         args |-> <<new_row>>, df |-> full_df,
         out |-> ResolveSignal(full_df[Len(full_df)])]

NoRes ==
    [fn |-> "none",
     raw |-> [z |-> [k |-> "nan", milli |-> 0], vix |-> None, fx |-> None],
     args |-> << >>, df |-> << >>,
     out |-> [z |-> ZNaN, vix_rank |-> None, fx_shock |-> None,
              allowed |-> FALSE, signal |-> ""]]

-----------------------------------------------------------------------------
(* src/kospi_sp_beta.py: run() once the signal is known                    *)

FIXED_INVEST_KRW == 3000000
CODE_LONG == "069500"
CODE_SHORT == "114800"

\* pos_map.get(user_pos, "NONE")
PosMap(user_pos) ==
    CASE user_pos = "1" -> "NONE"
      [] user_pos = "2" -> "LONG"
      [] user_pos = "3" -> "SHORT"
      [] OTHER -> "NONE"

\* TargetPos moving to cash on HOLD
TargetPos_flat(sig, current_pos) ==
    IF sig = "LONG" THEN "LONG"
    ELSE IF sig = "SHORT" THEN "SHORT"
    ELSE "NONE"

\* target_pos for a signal and the position held
TargetPos(sig, current_pos) ==
    IF sig = "HOLD" THEN current_pos
    ELSE IF sig = "LONG" THEN "LONG"
    ELSE IF sig = "SHORT" THEN "SHORT"
    ELSE "NONE"

NoTrade ==
    [status |-> "none", line |-> 0, user_pos |-> "", current_pos |-> "NONE",
     target_pos |-> "NONE", orders |-> << >>]

\* run() from the position prompt to its end: line is the line of the
\* return or of the last statement, orders the calls of send_order
RunTrade(sig, user_pos, deposit, price, confirm) ==
    LET current_pos == PosMap(user_pos)
        target_pos == TargetPos(sig, current_pos)
        invest_amt == IF deposit < FIXED_INVEST_KRW
                      THEN Rat(deposit * 98, 100)
                      ELSE Rat(FIXED_INVEST_KRW, 1)
        qty == IF price > 0
               THEN invest_amt.num \div (invest_amt.den * price) ELSE 0
        code_to_buy == IF target_pos = "LONG" THEN CODE_LONG ELSE CODE_SHORT
        done == [status |-> "returned", line |-> 0, user_pos |-> user_pos,
                 current_pos |-> current_pos, target_pos |-> target_pos,
                 orders |-> << >>]
    IN  IF target_pos = current_pos THEN [done EXCEPT !.line = 355]
        ELSE IF target_pos = "NONE" THEN [done EXCEPT !.line = 378]
        ELSE IF price <= 0 THEN [done EXCEPT !.line = 406]
        ELSE IF qty <= 0 THEN [done EXCEPT !.line = 404]
        ELSE IF confirm = "y"
        THEN [done EXCEPT !.line = 400,
                          !.orders = <<[side |-> "buy", code |-> code_to_buy,
                                        qty |-> qty]>>]
        ELSE [done EXCEPT !.line = 402]

-----------------------------------------------------------------------------
(* src/kiwoom_api.py: monitor.  Prices are whole numbers, the clock is in  *)
(* seconds; the moving average is a rational number.                       *)

MaxPolls == 3
MA_WINDOW == 2
RECALC_MINUTES == 30

\* compute_sma: None stands for the ValueError of too few candles
compute_sma(candles, window) ==
    IF Len(candles) < window THEN None
    ELSE Some(RDiv(RSum([j \in 1..window |->
                            Rat(candles[Len(candles) - window + j], 1)]),
                   Rat(window, 1)))

\* the threshold of touched_ma
Threshold(ma_value, tolerance, tolerance_pct) ==
    IF tolerance = 0 /\ tolerance_pct > 0
    THEN RMul(ma_value, Rat(tolerance_pct, 100))
    ELSE Rat(tolerance, 1)

InRange(ma_value, day_low, day_high, threshold) ==
    /\ day_low # None
    /\ day_high # None
    /\ RLe(RSub(Rat(day_low[1], 1), threshold), ma_value)
    /\ RLe(ma_value, RAdd(Rat(day_high[1], 1), threshold))

AbsDiffLe(price, ma_value, threshold) ==
    /\ RLe(RSub(Rat(price, 1), ma_value), threshold)
    /\ RLe(RSub(ma_value, Rat(price, 1)), threshold)

touched_ma(ma_value, quote, tolerance, tolerance_pct) ==
    \/ InRange(ma_value, quote.low, quote.high,
               Threshold(ma_value, tolerance, tolerance_pct))
    \/ AbsDiffLe(quote.price, ma_value,
                 Threshold(ma_value, tolerance, tolerance_pct))

\* AlertDue without the cooldown
AlertDue_always(now, last_alert_ts, cooldown_seconds) == TRUE

\* "(now - last_alert_ts) >= cooldown_seconds"
AlertDue(now, last_alert_ts, cooldown_seconds) ==
    now - last_alert_ts >= cooldown_seconds

RecalcDue(now, ma_value, last_recalc) ==
    ma_value = None \/ now - last_recalc >= RECALC_MINUTES * 60

NoMon ==
    [status |-> "none", one_shot |-> FALSE, cooldown_seconds |-> 0,
     tolerance |-> 0, tolerance_pct |-> 0, last_alert_ts |-> 0,
     last_recalc |-> 0, ma_value |-> None, log |-> << >>]

\* the locals of monitor() when the loop is entered
EnterMonitor(one_shot, cooldown_seconds, tolerance, tolerance_pct) ==
    [NoMon EXCEPT !.status = "running", !.one_shot = one_shot,
                  !.cooldown_seconds = cooldown_seconds,
                  !.tolerance = tolerance, !.tolerance_pct = tolerance_pct]

\* the rest of one pass of the loop once the moving average is known: the
\* quote poll, the alert, and the return or the sleep
PollWith(m, now, ma_value, last_recalc, quote) ==
    LET touched == touched_ma(ma_value[1], quote, m.tolerance, m.tolerance_pct)
        alert == touched /\ AlertDue(now, m.last_alert_ts, m.cooldown_seconds)
    IN  [m EXCEPT !.ma_value = ma_value,
                  !.last_recalc = last_recalc,
                  !.last_alert_ts = IF alert THEN now ELSE @,
                  !.log = Append(@, [now |-> now, touched |-> touched,
                                     alerted |-> alert]),
                  !.status = IF m.one_shot THEN "returned" ELSE "running"]

\* one pass of the "while True" loop of monitor()
LoopPass(m, now, candles, quote) ==
    IF RecalcDue(now, m.ma_value, m.last_recalc)
    THEN IF compute_sma(candles, MA_WINDOW) = None
         THEN [m EXCEPT !.status = "raised"]
         ELSE PollWith(m, now, compute_sma(candles, MA_WINDOW), now, quote)
    ELSE PollWith(m, now, m.ma_value, m.last_recalc, quote)

-----------------------------------------------------------------------------
(* src/kiwoom_kospi_strategy.py: KiwoomREST._post_json.  An attempt ends   *)
(* in one of: "ok" (status below 400, body parsed), "bad_json" (status     *)
(* below 400, body not parsable), "429", "500" (another status >= 400),    *)
(* "timeout" (session.post raised).                                        *)

MaxRetryBound == 2

Outcomes == {"ok", "bad_json", "429", "500", "timeout"}

\* HasNext giving up one attempt early
HasNext_short(attempt, max_retries) == attempt < max_retries

\* "attempt < (max_retries + 1)": the for loop has another attempt
HasNext(attempt, max_retries) == attempt < max_retries + 1

NoPost ==
    [status |-> "none", max_retries |-> 0, log |-> << >>, data |-> 0,
     exc |-> ""]

\* the call up to its first POST: range(1, max_retries + 2) may be empty
EnterPostJson(max_retries) ==
    IF HasNext(0, max_retries)
    THEN [NoPost EXCEPT !.status = "running", !.max_retries = max_retries]
    ELSE [NoPost EXCEPT !.status = "raised", !.max_retries = max_retries,
                        !.exc = "APIError"]

\* the loop after a failed attempt: sleep and go on, or break and raise
AfterFailure(p, attempt) ==
    IF HasNext(attempt, p.max_retries) THEN p
    ELSE [p EXCEPT !.status = "raised", !.exc = "APIError"]

\* one pass of the for loop: attempt number attempt ends in outcome; the
\* body of a parsed answer is numbered by its attempt
Attempt(p, attempt, outcome) ==
    IF outcome = "timeout" THEN AfterFailure(p, attempt)
    ELSE IF outcome = "429" /\ HasNext(attempt, p.max_retries) THEN p
    ELSE IF outcome \in {"429", "500"} THEN AfterFailure(p, attempt)
    ELSE IF outcome = "bad_json" THEN AfterFailure(p, attempt)
    ELSE [p EXCEPT !.status = "returned", !.data = attempt]

-----------------------------------------------------------------------------
(* src/kiwoom_kospi_strategy.py: run, the live strategy.  nets holds what  *)
(* fetch_foreigner_net_buy answers for yesterday, the day before, ...;     *)
(* p_0900 and p_0902 are what _extract_0900_0902_prices finds in the       *)
(* candles (None when the minute is missing).                              *)

LookbackDays == 2

\* _find_recent_foreigner_net: the first answer that is not None
RECURSIVE _find_recent_foreigner_net(_)
_find_recent_foreigner_net(nets) ==
    IF nets = << >> THEN None
    ELSE IF Head(nets) # None THEN Head(nets)
    ELSE _find_recent_foreigner_net(Tail(nets))

\* "not p" for an Optional[float]
Falsy(px) == px = None \/ px[1] = 0

NoLive ==
    [status |-> "none", line |-> 0, test_mode |-> FALSE, foreigner_net |-> None,
     p_0900 |-> None, p_0902 |-> None, foreigner_dir |-> 0, ret_dir |-> 0,
     orders |-> << >>]

\* SameDirection letting every pair of directions through
SameDirection_any(test_mode, foreigner_dir, ret_dir) == TRUE

\* the guard "not test_mode and foreigner_dir != ret_dir" lets the run go on
SameDirection(test_mode, foreigner_dir, ret_dir) ==
    test_mode \/ foreigner_dir = ret_dir

\* from "cash = client.fetch_deposit()" to the buy order
BuyStep(l, target_code, cash, curr_price) ==
    IF cash <= 0 THEN [l EXCEPT !.status = "returned", !.line = 553]
    ELSE IF cash < FIXED_INVEST_KRW
    THEN [l EXCEPT !.status = "returned", !.line = 558]
    ELSE IF curr_price <= 0 THEN [l EXCEPT !.status = "returned", !.line = 564]
    ELSE IF FIXED_INVEST_KRW \div curr_price <= 0
    THEN [l EXCEPT !.status = "returned", !.line = 569]
    ELSE [l EXCEPT !.status = IF l.test_mode THEN "returned" ELSE "waiting",
                   !.line = IF l.test_mode THEN 586 ELSE 576,
                   !.orders = <<[side |-> "buy", code |-> target_code,
                                 qty |-> FIXED_INVEST_KRW \div curr_price]>>]

\* from the return of the two prices to the choice of target_code
MomentumStep(l, ret_dir, cash, curr_price) ==
    IF ret_dir = 0 THEN [l EXCEPT !.status = "returned", !.line = 529]
    ELSE IF ~SameDirection(l.test_mode, l.foreigner_dir, ret_dir)
    THEN [l EXCEPT !.status = "returned", !.line = 537, !.ret_dir = ret_dir]
    ELSE BuyStep([l EXCEPT !.ret_dir = ret_dir],
                 IF ret_dir > 0 THEN CODE_LONG ELSE CODE_SHORT, cash, curr_price)

\* the prices as run() sees them: test mode fills in missing ones
PriceStep(l, p_0900, p_0902, cash, curr_price) ==
    IF Falsy(p_0900) \/ Falsy(p_0902)
    THEN [l EXCEPT !.status = "returned", !.line = 518,
                   !.p_0900 = p_0900, !.p_0902 = p_0902]
    ELSE MomentumStep([l EXCEPT !.p_0900 = p_0900, !.p_0902 = p_0902],
                      Sgn(p_0902[1] - p_0900[1]) * Sgn(p_0900[1]),
                      cash, curr_price)

InjectStep(l, p_0900, p_0902, cash, curr_price) ==
    IF l.test_mode /\ (Falsy(p_0900) \/ Falsy(p_0902))
    THEN PriceStep(l, Some(2600), Some(2605), cash, curr_price)
    ELSE PriceStep(l, p_0900, p_0902, cash, curr_price)

\* run() from its start to the wait for 10:00 or to its return
LiveRun(test_mode, foreigner_net, p_0900, p_0902, cash, curr_price) ==
    IF foreigner_net = None
    THEN [NoLive EXCEPT !.status = "returned", !.line = 487,
                        !.test_mode = test_mode]
    ELSE IF Sgn(foreigner_net[1]) = 0 /\ ~test_mode
    THEN [NoLive EXCEPT !.status = "returned", !.line = 492,
                        !.test_mode = test_mode, !.foreigner_net = foreigner_net]
    ELSE InjectStep([NoLive EXCEPT !.test_mode = test_mode,
                                   !.foreigner_net = foreigner_net,
                                   !.foreigner_dir = Sgn(foreigner_net[1])],
                    p_0900, p_0902, cash, curr_price)

\* run() after wait_until("1000"): the sell order
LiveSell(l) ==
    [l EXCEPT !.status = "returned", !.line = 586,
              !.orders = IF l.orders[1].qty > 0
                         THEN Append(@, [l.orders[1] EXCEPT !.side = "sell"])
                         ELSE @]

-----------------------------------------------------------------------------
(* src/backtest_simple.py: _find_prev_foreign_net and the cache that       *)
(* backtest() shares between its days.  Dates are day numbers; client      *)
(* holds what fetch_foreigner_net_buy answers for a date; a cache entry is *)
(* << >> when the date is not a key and <<v>> when it is, v an Optional.   *)

MaxBase == 4

FirstDate == 1 - LookbackDays
FetchDates == FirstDate .. (MaxBase - 1)

NoFnet ==
    [status |-> "none", client |-> [d \in FetchDates |-> None],
     cache |-> [d \in FetchDates |-> << >>], fetches |-> << >>,
     base_date |-> 0, out |-> None]

\* InCache finding only the dates cached with a number
InCache_number(cache, d) == cache[d] # << >> /\ cache[d][1] # None

\* "d_str in cache"
InCache(cache, d) == cache[d] # << >>

\* the loop of _find_prev_foreign_net from one offset on
RECURSIVE FindPrevFrom(_, _, _)
FindPrevFrom(f, offset, lookback_days) ==
    IF offset > lookback_days THEN [f EXCEPT !.out = None]
    ELSE IF InCache(f.cache, f.base_date - offset)
    THEN IF f.cache[f.base_date - offset][1] # None
         THEN [f EXCEPT !.out = f.cache[f.base_date - offset][1]]
         ELSE FindPrevFrom(f, offset + 1, lookback_days)
    ELSE IF f.client[f.base_date - offset] # None
    THEN [f EXCEPT !.cache[f.base_date - offset] = <<f.client[f.base_date - offset]>>,
                   !.fetches = Append(@, f.base_date - offset),
                   !.out = f.client[f.base_date - offset]]
    ELSE FindPrevFrom([f EXCEPT !.cache[f.base_date - offset] = <<None>>,
                                !.fetches = Append(@, f.base_date - offset)],
                      offset + 1, lookback_days)

_find_prev_foreign_net(f, base_date, lookback_days) ==
    FindPrevFrom([f EXCEPT !.base_date = base_date], 1, lookback_days)

-----------------------------------------------------------------------------
(* The state machine: a day is loaded row by row in time order, then one   *)
(* function is called on it.                                               *)

NoCall ==
    [fn |-> "none", target |-> 0, foreign_net |-> None, cost |-> COST_ROUNDTRIP,
     base_time |-> 0, n |-> 0, m |-> 0,
     auto_base_time |-> FALSE, foreign_filter |-> FALSE]

Init ==
    /\ day = << >>
    /\ call = NoCall
    /\ frame = NoFrame
    /\ df = << >>
    /\ gcall = NoGridCall
    /\ gret = NoGridRet
    /\ daily_rets = << >>
    /\ cell = NoCell
    /\ par = NoPar
    /\ hist = << >>
    /\ res = NoRes
    /\ trade = NoTrade
    /\ mon = NoMon
    /\ post = NoPost
    /\ live = NoLive
    /\ fnet = NoFnet

\* one more row of the day; rows arrive sorted by time (sort_values)
AddSample(t, p) ==
    /\ call.fn = "none"
    /\ Len(day) < MaxLen
    /\ day # << >> => day[Len(day)].time <= t
    /\ day' = Append(day, [time |-> t, close |-> p])
    /\ UNCHANGED <<call, frame, gvars, cvars, par, kvars, ovars>>

CallPickPrice(target) ==
    /\ call.fn = "none"
    /\ call' = [NoCall EXCEPT !.fn = "_pick_price", !.target = target]
    /\ frame' = [NoFrame EXCEPT !.line = 299,
                                !.row = _pick_row(day, target),
                                !.price = _pick_price(day, target)]
    /\ UNCHANGED <<day, gvars, cvars, par, kvars, ovars>>

CallSimulateDayV2(foreign_net, cost, base_time, n, m, auto_base_time, foreign_filter) ==
    /\ call.fn = "none"
    /\ call' = [fn |-> "simulate_day_v2", target |-> 0,
                foreign_net |-> foreign_net, cost |-> cost,
                base_time |-> base_time, n |-> n, m |-> m,
                auto_base_time |-> auto_base_time,
                foreign_filter |-> foreign_filter]
    /\ frame' = simulate_day_v2(day, foreign_net, cost, base_time, n, m,
                                auto_base_time, foreign_filter)
    /\ UNCHANGED <<day, gvars, cvars, par, kvars, ovars>>

\* simulate_day(day, foreign_net, cost, entry_time, exit_time); the two
\* times are kept in call.n and call.m as offsets from 09:00
CallSimulateDay(foreign_net, cost, n, m) ==
    /\ call.fn = "none"
    /\ call' = [fn |-> "simulate_day", target |-> 0,
                foreign_net |-> foreign_net, cost |-> cost,
                base_time |-> 540, n |-> n, m |-> m,
                auto_base_time |-> FALSE, foreign_filter |-> TRUE]
    /\ frame' = simulate_day(day, foreign_net, cost, 540 + n, 540 + m)
    /\ UNCHANGED <<day, gvars, cvars, par, kvars, ovars>>

Next ==
    \/ \E t \in Times, p \in Prices : AddSample(t, p)
    \/ \E target \in Targets : CallPickPrice(target)
    \/ \E fa \in FilterArgs, cost \in Costs, base_time \in BaseTimes,
          n \in NValues, m \in MValues, auto_base_time \in BOOLEAN :
          CallSimulateDayV2(fa[2], cost, base_time, n, m, auto_base_time, fa[1])
    \/ \E foreign_net \in ForeignNets, cost \in Costs, tm \in SimDayTimes :
          CallSimulateDay(foreign_net, cost, tm[1], tm[2])

Spec == Init /\ [][Next]_vars

-----------------------------------------------------------------------------
(* The grid search: the dataset is loaded one trading day after the other, *)
(* then run_grid_search_v2 is called on it.                                *)

\* the rows of the next trading day join the dataset (sorted by datetime)
AddDay(rows) ==
    /\ gcall.fn = "none"
    /\ LET date == IF df = << >> THEN 1 ELSE df[Len(df)].date + 1
       IN  /\ date <= MaxDates
           /\ df' = df \o [i \in DOMAIN rows |->
                              [date |-> date, time |-> rows[i].time,
                               close |-> rows[i].close]]
    /\ UNCHANGED <<gcall, gret, svars, cvars, par, kvars, ovars>>

CallRunGridSearchV2(n_values, m_values, cost, foreign_net_map, base_time, auto_base_time, foreign_filter) ==
    /\ gcall.fn = "none"
    /\ gcall' = [fn |-> "run_grid_search_v2", n_values |-> n_values,
                 m_values |-> m_values, cost |-> cost,
                 foreign_net_map |-> foreign_net_map, base_time |-> base_time,
                 auto_base_time |-> auto_base_time,
                 foreign_filter |-> foreign_filter]
    /\ gret' = run_grid_search_v2(df, gcall')
    /\ UNCHANGED <<df, svars, cvars, par, kvars, ovars>>

GridNext ==
    \/ \E rows \in GridDays : AddDay(rows)
    \/ \E n_values \in GridNValues, m_values \in GridMValues,
          cost \in GridCosts, fa \in GridFilterArgs,
          auto_base_time \in BOOLEAN :
          CallRunGridSearchV2(n_values, m_values, cost, fa[2], 540,
                              auto_base_time, fa[1])

GridSpec == Init /\ [][GridNext]_vars

-----------------------------------------------------------------------------
(* One cell of the grid, step by step: the returns of the days that trade  *)
(* are appended to daily_rets, then the loop body reports the cell.        *)

\* "if r is not None: daily_rets.append(r)"
AppendRet(r) ==
    /\ cell.status = "collecting"
    /\ Len(daily_rets) < MaxRets
    /\ daily_rets' = Append(daily_rets, r)
    /\ UNCHANGED <<cell, svars, gvars, par, kvars, ovars>>

\* the rest of the loop body: continue, or the row appended to results
ReportCell(n, m) ==
    /\ cell.status = "collecting"
    /\ cell' = IF HasTrades(daily_rets)
               THEN [status |-> "reported",
                     results |-> <<ResultRow(n, m, daily_rets)>>]
               ELSE [status |-> "skipped", results |-> << >>]
    /\ UNCHANGED <<daily_rets, svars, gvars, par, kvars, ovars>>

CellNext ==
    \/ \E r \in RetValues : AppendRet(r)
    \/ \E n \in {0}, m \in {5} : ReportCell(n, m)

CellSpec == Init /\ [][CellNext]_vars

-----------------------------------------------------------------------------
(* The cells of a grid evaluated one at a time in any order, as by workers *)
(* that share nothing but the list of results: each step is the loop body  *)
(* of run_grid_search_v2 for one cell; the results are merged by the       *)
(* closing sort_values.                                                    *)

StartWorkers(n_values, m_values, cost, foreign_net_map, base_time, auto_base_time, foreign_filter) ==
    /\ gcall.fn = "none"
    /\ gcall' = [fn |-> "workers", n_values |-> n_values,
                 m_values |-> m_values, cost |-> cost,
                 foreign_net_map |-> foreign_net_map, base_time |-> base_time,
                 auto_base_time |-> auto_base_time,
                 foreign_filter |-> foreign_filter]
    /\ par' = [NoPar EXCEPT !.status = "running",
                            !.pending = 1..(Len(n_values) * Len(m_values))]
    /\ UNCHANGED <<df, gret, svars, cvars, kvars, ovars>>

\* one worker evaluates cell k of itertools.product(n_values, m_values)
EvalCell(k) ==
    /\ par.status = "running"
    /\ k \in par.pending
    /\ LET c == Product(gcall.n_values, gcall.m_values)[k]
           one == CellResult(GroupBy(df), c[1], c[2], gcall)
       IN  par' = IF one.exc # ""
                  THEN [par EXCEPT !.status = "raised"]
                  ELSE [par EXCEPT !.pending = @ \ {k},
                                   !.results = @ \o one.results]
    /\ UNCHANGED <<gvars, svars, cvars, kvars, ovars>>

\* every cell is done: the results are sorted into the table
MergeResults ==
    /\ par.status = "running"
    /\ par.pending = {}
    /\ par' = [par EXCEPT !.status = "merged",
                          !.table = SortValues(par.results)]
    /\ UNCHANGED <<gvars, svars, cvars, kvars, ovars>>

ParNext ==
    \/ \E rows \in ParDays : AddDay(rows)
    \/ \E n_values \in ParNValues, m_values \in ParMValues,
          cost \in GridCosts, fa \in ParFilterArgs :
          StartWorkers(n_values, m_values, cost, fa[2], 540, TRUE, fa[1])
    \/ \E k \in par.pending : EvalCell(k)
    \/ MergeResults

ParSpec == Init /\ [][ParNext]_vars

-----------------------------------------------------------------------------
(* The signal and the order: calculate_signal resolves the signal of the   *)
(* most recent row, then run() asks for the position held and trades.      *)
(* The most recent row is drawn here; the series that produces it is       *)
(* loaded row by row further down.                                         *)

\* z in thousandths, around 0, ENTRY = 2.150 and ENTRY * STOP_LOSS_MULT
ZMillis ==
    {0, 1, -1, 2149, 2150, 2151, -2149, -2150, -2151,
     7094, 7095, 7096, -7094, -7095, -7096}

RawZs ==
    {[k |-> "num", milli |-> v] : v \in ZMillis}
        \cup {[k |-> "nan", milli |-> 0], [k |-> "inf", milli |-> 1],
              [k |-> "inf", milli |-> -1]}

\* ranks in hundredths, around VIX_Q = 0.94 and FX_Q = 0.96; None is NaN
RawRanks == {None, Some(50), Some(94), Some(95), Some(96), Some(97)}

ZOfRaw(raw) ==
    CASE raw.k = "nan" -> ZNaN
      [] raw.k = "inf" -> ZInf(Sgn(raw.milli))
      [] OTHER -> ZNum(Sgn(raw.milli), Rat(raw.milli * raw.milli, 1000000))

RankOfRaw(h) == IF h = None THEN None ELSE Some(Rat(h[1], 100))

UserPositions == {"1", "2", "3", "x"}
Deposits == {0, 20000, 1000000, 5000000}
OrderPrices == {0, 30000, 4000000}
Confirms == {"y", "n"}

CallResolve(raw, vix, fx) ==
    /\ res.fn = "none"
    /\ res' = [fn |-> "resolve", raw |-> [z |-> raw, vix |-> vix, fx |-> fx],
               args |-> << >>, df |-> << >>,
               out |-> ResolveSignal([z |-> ZOfRaw(raw),
                                      vix_rank |-> RankOfRaw(vix),
                                      fx_shock |-> RankOfRaw(fx)])]
    /\ trade' = NoTrade
    /\ UNCHANGED <<hist, svars, gvars, cvars, par, ovars>>

CallRunTrade(user_pos, deposit, price, confirm) ==
    /\ res.fn # "none"
    /\ trade.status = "none"
    /\ trade' = RunTrade(res.out.signal, user_pos, deposit, price, confirm)
    /\ UNCHANGED <<hist, res, svars, gvars, cvars, par, ovars>>

SignalNext ==
    \/ \E raw \in RawZs, vix \in RawRanks, fx \in RawRanks :
           CallResolve(raw, vix, fx)
    \/ \E user_pos \in UserPositions, deposit \in Deposits,
          price \in OrderPrices, confirm \in Confirms :
           CallRunTrade(user_pos, deposit, price, confirm)

SignalSpec == Init /\ [][SignalNext]_vars

-----------------------------------------------------------------------------
(* The series: the history is loaded one row after the other in date       *)
(* order (run() sorts it and drops its rows with a NaN), then              *)
(* calculate_signal is called on it with the row of today.                 *)

\* log kospi_t, log SPX_t-1, VIX_t-1, log FX_t
SeriesValues == {<<0, 0, 15, 0>>, <<1, 2, 20, 1>>, <<3, 1, 15, 3>>, <<1, 3, 30, 0>>}

SeriesRow(d, v) ==
    [date |-> d, log_kospi |-> Some(v[1]), log_spx |-> Some(v[2]),
     vix |-> Some(v[3]), log_fx |-> Some(v[4])]

\* the row of today: its inputs are typed in, so one may be NaN
TodayRows(d) ==
    {SeriesRow(d, v) : v \in SeriesValues}
        \cup {[SeriesRow(d, <<1, 1, 0, 1>>) EXCEPT !.vix = None]}

AddRow(v) ==
    /\ res.fn = "none"
    /\ Len(hist) < MaxRows
    /\ hist' = Append(hist, SeriesRow(Len(hist) + 1, v))
    /\ UNCHANGED <<res, trade, svars, gvars, cvars, par, ovars>>

CallCalculateSignal(new_row) ==
    /\ res.fn = "none"
    /\ res' = calculate_signal(hist, new_row)
    /\ UNCHANGED <<hist, trade, svars, gvars, cvars, par, ovars>>

SeriesNext ==
    \/ \E v \in SeriesValues : AddRow(v)
    \/ \E new_row \in TodayRows(Len(hist) + 1) : CallCalculateSignal(new_row)

SeriesSpec == Init /\ [][SeriesNext]_vars

-----------------------------------------------------------------------------
(* The monitor: monitor() is called, then its loop runs one pass after the *)
(* other; each pass reads the clock, the candles when the average is due   *)
(* and one quote.                                                          *)

Clocks == {0, 299, 300, 599, 600, 1800, 2100}
Cooldowns == {0, 300}
Tolerances == {<<0, 0>>, <<5, 0>>, <<0, 10>>}
CandleLists == {<<100, 100>>, <<100, 80, 100>>, <<100>>}

Quotes ==
    {[price |-> 100, low |-> None, high |-> None],
     [price |-> 110, low |-> None, high |-> None],
     [price |-> 110, low |-> Some(95), high |-> Some(105)],
     [price |-> 120, low |-> Some(111), high |-> Some(130)]}

CallMonitor(one_shot, cooldown_seconds, tol) ==
    /\ mon.status = "none"
    /\ mon' = EnterMonitor(one_shot, cooldown_seconds, tol[1], tol[2])
    /\ UNCHANGED <<svars, gvars, cvars, par, kvars, post, live, fnet>>

MonitorPass(now, candles, quote) ==
    /\ mon.status = "running"
    /\ Len(mon.log) < MaxPolls
    /\ mon' = LoopPass(mon, now, candles, quote)
    /\ UNCHANGED <<svars, gvars, cvars, par, kvars, post, live, fnet>>

MonitorNext ==
    \/ \E one_shot \in BOOLEAN, cooldown_seconds \in Cooldowns,
          tol \in Tolerances : CallMonitor(one_shot, cooldown_seconds, tol)
    \/ \E now \in Clocks, candles \in CandleLists, quote \in Quotes :
           MonitorPass(now, candles, quote)

MonitorSpec == Init /\ [][MonitorNext]_vars

-----------------------------------------------------------------------------
(* One call of _post_json: the call, then one POST attempt after the other *)

CallPostJson(max_retries) ==
    /\ post.status = "none"
    /\ post' = EnterPostJson(max_retries)
    /\ UNCHANGED <<svars, gvars, cvars, par, kvars, mon, live, fnet>>

PostAttempt(outcome) ==
    /\ post.status = "running"
    /\ post' = Attempt([post EXCEPT !.log = Append(@, outcome)],
                       Len(post.log) + 1, outcome)
    /\ UNCHANGED <<svars, gvars, cvars, par, kvars, mon, live, fnet>>

PostNext ==
    \/ \E max_retries \in -1..MaxRetryBound : CallPostJson(max_retries)
    \/ \E outcome \in Outcomes : PostAttempt(outcome)

PostSpec == Init /\ [][PostNext]_vars

-----------------------------------------------------------------------------
(* The live strategy: run() is called and goes on to its buy order or to   *)
(* a return; after the wait for 10:00 it sells.                            *)

NetAnswers == {None, Some(-500), Some(0), Some(700)}
IndexPrices == {None, Some(0), Some(2600), Some(2605), Some(2590)}
Cash == {0, 1000000, 5000000}
EtfPrices == {0, 30000, 4000000}

RECURSIVE SeqsUpTo(_, _)
SeqsUpTo(S, n) ==
    IF n = 0 THEN {<< >>}
    ELSE SeqsUpTo(S, n - 1)
             \cup {Append(q, x) : q \in {r \in SeqsUpTo(S, n - 1) : Len(r) = n - 1},
                                  x \in S}

CallLiveRun(test_mode, nets, p_0900, p_0902, cash, curr_price) ==
    /\ live.status = "none"
    /\ live' = LiveRun(test_mode, _find_recent_foreigner_net(nets),
                       p_0900, p_0902, cash, curr_price)
    /\ UNCHANGED <<svars, gvars, cvars, par, kvars, mon, post, fnet>>

LiveReachTen ==
    /\ live.status = "waiting"
    /\ live' = LiveSell(live)
    /\ UNCHANGED <<svars, gvars, cvars, par, kvars, mon, post, fnet>>

LiveNext ==
    \/ \E test_mode \in BOOLEAN, nets \in SeqsUpTo(NetAnswers, LookbackDays),
          p_0900 \in IndexPrices, p_0902 \in IndexPrices, cash \in Cash,
          curr_price \in EtfPrices :
           CallLiveRun(test_mode, nets, p_0900, p_0902, cash, curr_price)
    \/ LiveReachTen

LiveSpec == Init /\ [][LiveNext]_vars

-----------------------------------------------------------------------------
(* backtest() of backtest_simple.py with the foreign filter: it starts     *)
(* with an empty cache and looks up the dates of the dataset in ascending  *)
(* order.                                                                  *)

\* what the client may hold for a date: nothing, or a number of its own
ClientData == {c \in [FetchDates -> {None} \cup {Some(d) : d \in FetchDates}] :
                   \A d \in FetchDates : c[d] \in {None, Some(d)}}

StartBacktest(client) ==
    /\ fnet.status = "none"
    /\ fnet' = [NoFnet EXCEPT !.status = "started", !.client = client]
    /\ UNCHANGED <<svars, gvars, cvars, par, kvars, mon, post, live>>

BacktestDay(d) ==
    /\ fnet.status \in {"started", "looked_up"}
    /\ d > fnet.base_date
    /\ fnet' = [_find_prev_foreign_net(fnet, d, LookbackDays)
                    EXCEPT !.status = "looked_up"]
    /\ UNCHANGED <<svars, gvars, cvars, par, kvars, mon, post, live>>

BacktestNext ==
    \/ \E client \in ClientData : StartBacktest(client)
    \/ \E d \in 1 .. MaxBase : BacktestDay(d)

BacktestSpec == Init /\ [][BacktestNext]_vars

-----------------------------------------------------------------------------
(* Properties of _pick_price and of the day simulators                     *)

Rows(d) == {d[i] : i \in DOMAIN d}

ExampleDay == <<[time |-> 540, close |-> 100], [time |-> 545, close |-> 110]>>

TradeDay ==
    <<[time |-> 540, close |-> 100], [time |-> 542, close |-> 101],
      [time |-> 545, close |-> 110]>>

TieDay ==
    <<[time |-> 540, close |-> 100], [time |-> 542, close |-> 100],
      [time |-> 545, close |-> 110]>>

\* the effective base time of a simulate_day_v2 call, from its arguments
EffectiveBase ==
    IF call.auto_base_time /\ \A r \in Rows(day) : r.time > call.base_time
    THEN CHOOSE t \in {r.time : r \in Rows(day)} :
             \A r \in Rows(day) : t <= r.time
    ELSE call.base_time

\* C1: on a day in time order _pick_price returns the close of a row at the
\* target time when there is one, otherwise the close of a row of the
\* latest time strictly before the target, otherwise None; the row it
\* returns is never later than the target (09:00=100, 09:05=110: 08:59
\* gives None, 09:00 and 09:02 give 100, 09:05 gives 110).
C1_PickPrice ==
    call.fn = "_pick_price" =>
        LET t == call.target
            exact  == {r \in Rows(day) : r.time = t}
            before == {r \in Rows(day) : r.time < t}
        IN  /\ exact # {} => frame.row # None /\ frame.row[1] \in exact
            /\ (exact = {} /\ before # {}) =>
                   /\ frame.row # None
                   /\ frame.row[1] \in before
                   /\ \A r \in before : r.time <= frame.row[1].time
            /\ (exact = {} /\ before = {}) => frame.price = None
            /\ frame.row = None <=> frame.price = None
            /\ frame.row # None =>
                   /\ frame.price = Some(frame.row[1].close)
                   /\ frame.row[1].time <= t
            /\ day = ExampleDay =>
                   frame.price = CASE t = 539 -> None
                                   [] t = 545 -> Some(110)
                                   [] OTHER -> Some(100)

C1_Witness ==
    /\ call.fn = "_pick_price"
    /\ call.target = 542
    /\ day = ExampleDay
    /\ frame.price = Some(100)

\* C2: each price simulate_day_v2 uses is the close of a row of the day
\* whose time is at or before the exit time and at or before the time the
\* price was asked for, also when the entry offset exceeds the exit offset.
C2_NoLookPastExit ==
    call.fn = "simulate_day_v2" =>
        \A pr \in {<<frame.open_base, frame.base_time_used>>,
                   <<frame.ref_close, frame.entry_time>>,
                   <<frame.exit_px, frame.exit_time>>} :
            pr[1] # None =>
                /\ pr[1][1] \in Rows(day)
                /\ pr[1][1].time <= frame.exit_time[1]
                /\ pr[1][1].time <= pr[2][1]

C2_Witness ==
    /\ call.fn = "simulate_day_v2"
    /\ call.n > call.m
    /\ frame.line = 414
    /\ \E r \in Rows(day) :
           r.time > frame.exit_time[1] /\ r.time <= frame.entry_time[1]

\* C3: a day whose base price is 0 ends in the no-trade outcome, without an
\* exception.
C3_ZeroBaseIsNoTrade ==
    (/\ call.fn \in {"simulate_day_v2", "simulate_day"}
     /\ frame.open_base # None
     /\ frame.open_base[1].close = 0)
        => frame.exc = "" /\ frame.result = None

\* C4: the direction is +1 exactly when the entry price is strictly above
\* the base price and -1 otherwise, a tie included (base 100, entry 100,
\* exit 110: direction -1, gross return -1/10; entry 101: +1 and +1/10).
C4_Direction ==
    frame.direction # None =>
        LET b == frame.open_base[1].close
            e == frame.ref_close[1].close
            x == frame.exit_px[1].close
            dir == frame.direction[1]
        IN  /\ dir \in {1, -1}
            /\ dir = 1 <=> e > b
            /\ (b = 100 /\ e = 100 /\ x = 110) =>
                   dir = -1 /\ frame.gross_ret = Some([num |-> -1, den |-> 10])
            /\ (b = 100 /\ e = 101 /\ x = 110) =>
                   dir = 1 /\ frame.gross_ret = Some([num |-> 1, den |-> 10])

C4_Witness ==
    /\ call.fn = "simulate_day_v2"
    /\ day = TieDay
    /\ frame.open_base = Some(TieDay[1])
    /\ frame.ref_close = Some(TieDay[2])
    /\ frame.exit_px = Some(TieDay[3])
    /\ frame.direction = Some(-1)
    /\ frame.gross_ret = Some([num |-> -1, den |-> 10])

\* C5: a trade of simulate_day_v2 returns
\* direction * (exit - base) / base - cost, with base the price picked at
\* the effective base time and the cost taken off once.
C5_NetReturn ==
    (call.fn = "simulate_day_v2" /\ frame.result # None) =>
        LET b == frame.open_base[1].close
            e == frame.ref_close[1].close
            x == frame.exit_px[1].close
            dir == IF e > b THEN 1 ELSE -1
            c == call.cost
            base_row == frame.open_base[1]
        IN  /\ base_row \in Rows(day)
            /\ base_row.time <= EffectiveBase
            /\ \A r \in Rows(day) :
                   (r.time <= EffectiveBase /\ r.time <= frame.exit_time[1])
                       => r.time <= base_row.time
            /\ b > 0
            /\ frame.gross_ret = Some(Rat(dir * (x - b), b))
            /\ frame.result =
                   Some(Rat(dir * (x - b) * c.den - c.num * b, b * c.den))

C5_Witness ==
    /\ call.fn = "simulate_day_v2"
    /\ day = TradeDay
    /\ call.cost = [num |-> 1, den |-> 2000]
    /\ frame.gross_ret = Some([num |-> 1, den |-> 10])
    /\ frame.result = Some([num |-> 199, den |-> 2000])

\* C6: with the filter on, simulate_day_v2 returns None for every day whose
\* filter value is None or at most 0; it trades only on a positive value.
C6_Filter ==
    (call.fn = "simulate_day_v2" /\ call.foreign_filter) =>
        /\ (call.foreign_net = None \/ call.foreign_net[1] <= 0) =>
               frame.result = None /\ frame.exc = ""
        /\ frame.result # None =>
               call.foreign_net # None /\ call.foreign_net[1] > 0

C6_Witness ==
    /\ call.fn = "simulate_day_v2"
    /\ call.foreign_filter
    /\ call.foreign_net = Some(0)
    /\ call.base_time = 540 /\ call.n = 2 /\ call.m = 5
    /\ day = TradeDay
    /\ frame.result = None

\* C7: when the day is empty or one of the three prices has no row at or
\* before its time and the exit time, simulate_day_v2 returns None and
\* raises nothing.
C7_MissingPrice ==
    call.fn = "simulate_day_v2" =>
        LET b == EffectiveBase
            e == (b + call.n) % 1440
            x == (b + call.m) % 1440
            Avail(t) == \E r \in Rows(day) : r.time <= t /\ r.time <= x
        IN  (day = << >> \/ ~Avail(b) \/ ~Avail(e) \/ ~Avail(x)) =>
                frame.result = None /\ frame.exc = ""

C7_Witness ==
    /\ call.fn = "simulate_day_v2"
    /\ ~FilterFails(call.foreign_filter, call.foreign_net)
    /\ frame.line = 410
    /\ frame.open_base = None
    /\ frame.exit_px # None
    /\ frame.result = None

\* C8: the base time simulate_day_v2 uses is the time of the day's first
\* row when auto_base_time is set and no row is at or before the configured
\* base, and the configured base otherwise; the entry and exit times are
\* that time plus n and plus m.
C8_EffectiveBase ==
    (call.fn = "simulate_day_v2" /\ frame.base_time_used # None) =>
        /\ frame.base_time_used = Some(EffectiveBase)
        /\ frame.entry_time = Some((EffectiveBase + call.n) % 1440)
        /\ frame.exit_time = Some((EffectiveBase + call.m) % 1440)
        /\ (~call.auto_base_time
            \/ \E r \in Rows(day) : r.time <= call.base_time) =>
               frame.base_time_used = Some(call.base_time)

C8_Witness ==
    /\ call.fn = "simulate_day_v2"
    /\ call.auto_base_time
    /\ call.base_time = 540
    /\ day # << >>
    /\ day[1].time = 542
    /\ frame.base_time_used = Some(542)
    /\ frame.entry_time = Some(542 + call.n)
    /\ frame.line = 414

\* the reason the return at a line of simulate_day_v2 skips the day for
SkipReason(line) == IF line = 391 THEN "filter" ELSE "missing_price"

\* C15: the no-trade outcome simulate_day_v2 returns records the reason of
\* the skip: a day skipped by the filter and the same day skipped for a
\* missing price give outcomes the caller can tell apart.
C15_SkipReason ==
    (call.fn = "simulate_day_v2" /\ frame.exc = "" /\ frame.result = None) =>
        \A fa \in FilterArgs :
            LET other == simulate_day_v2(day, fa[2], call.cost, call.base_time,
                                         call.n, call.m, call.auto_base_time,
                                         fa[1])
            IN  (/\ other.exc = ""
                 /\ other.result = None
                 /\ SkipReason(other.line) # SkipReason(frame.line))
                    => other.result # frame.result

-----------------------------------------------------------------------------
(* Properties of run_grid_search_v2                                       *)

GridDates == {df[i].date : i \in DOMAIN df}

GridCells ==
    {<<gcall.n_values[i], gcall.m_values[j]>> :
        i \in DOMAIN gcall.n_values, j \in DOMAIN gcall.m_values}

\* the dates of the dataset on which cell c trades
TradedDates(c) ==
    {d \in GridDates :
        simulate_day_v2(SelectSeq(df, LAMBDA r : r.date = d),
                        ForeignNetOf(gcall.foreign_net_map, d),
                        gcall.cost, gcall.base_time, c[1], c[2],
                        gcall.auto_base_time, gcall.foreign_filter).result
            # None}

RowsOfCell(c) ==
    {k \in DOMAIN gret.table : gret.table[k].n = c[1] /\ gret.table[k].m = c[2]}

\* C9: a call of run_grid_search_v2 runs to completion and returns a table
\* whatever the days of the dataset hold; no exception of a single day
\* leaves the run.
C9_GridCompletes ==
    gcall.fn = "run_grid_search_v2" =>
        gret.status = "returned" /\ gret.exc = ""

\* C10: the table returned has a row for a cell exactly when some day of
\* the dataset traded for that cell, and no row counts 0 trades.
C10_RowsIffTrades ==
    gret.status = "returned" =>
        /\ \A c \in GridCells : RowsOfCell(c) # {} <=> TradedDates(c) # {}
        /\ \A k \in DOMAIN gret.table :
               LET row == gret.table[k]
               IN  /\ <<row.n, row.m>> \in GridCells
                   /\ row.trades = Cardinality(TradedDates(<<row.n, row.m>>))
                   /\ row.trades >= 1
        /\ Len(gret.table) =
               Cardinality({c \in GridCells : TradedDates(c) # {}})

C10_Witness ==
    /\ gret.status = "returned"
    /\ Len(gret.table) >= 1
    /\ Cardinality(GridDates) = MaxDates
    /\ \E c \in GridCells : RowsOfCell(c) = {}
    /\ \E c \in GridCells :
           RowsOfCell(c) # {} /\ TradedDates(c) # GridDates

\* C11: the rows of the table returned are in ascending order of the exit
\* offset m and, for equal m, in ascending order of the entry offset n, in
\* whatever order n_values and m_values list the offsets.
C11_Ordering ==
    gret.status = "returned" =>
        \A i, j \in DOMAIN gret.table :
            i < j =>
                \/ gret.table[i].m < gret.table[j].m
                \/ /\ gret.table[i].m = gret.table[j].m
                   /\ gret.table[i].n <= gret.table[j].n

C11_Witness ==
    /\ gret.status = "returned"
    /\ gcall.n_values = <<5, 0>>
    /\ gcall.m_values = <<5, 0>>
    /\ Len(gret.table) = 4
    /\ <<gret.table[2].n, gret.table[2].m>> = <<5, 0>>
    /\ <<gret.table[3].n, gret.table[3].m>> = <<0, 5>>

-----------------------------------------------------------------------------
(* Properties of the statistics of a cell                                  *)

RECURSIVE IntSum(_)
IntSum(xs) == IF xs = << >> THEN 0 ELSE Head(xs) + IntSum(Tail(xs))

\* the returns of the cell in twentieths
Twentieths == [i \in DOMAIN daily_rets |->
                  daily_rets[i].num * (20 \div daily_rets[i].den)]

\* count * (sum of squares) - (sum)^2 of the returns in twentieths: the
\* sample variance times 400 * count * (count - 1)
Spread ==
    Len(daily_rets) * IntSum([i \in DOMAIN Twentieths |->
                                 Twentieths[i] * Twentieths[i]])
        - IntSum(Twentieths) * IntSum(Twentieths)

\* C12: the Sharpe ratio of a reported cell is mean / sample std * sqrt(252)
\* (divisor count - 1) when the sample standard deviation is positive, and
\* exactly 0 when it is zero or undefined: all returns identical, or a
\* single return.
C12_Sharpe ==
    cell.status = "reported" =>
        LET k == Len(daily_rets)
            total == IntSum(Twentieths)
            sharpe == cell.results[1].sharpe
        IN  IF k >= 2 /\ Spread > 0
            THEN /\ sharpe.sign = (IF total > 0 THEN 1
                                   ELSE IF total < 0 THEN -1 ELSE 0)
                 /\ sharpe.sq = Rat(AnnualDays * total * total * (k - 1),
                                    k * Spread)
                 /\ sharpe.exp2 = 0
            ELSE sharpe = [sign |-> 0, sq |-> RZero, exp2 |-> 0]

RECURSIVE IntProd(_)
IntProd(xs) == IF xs = << >> THEN 1 ELSE Head(xs) * IntProd(Tail(xs))

\* the compounded curve after the i-th return of the cell
CurveAt(i) ==
    Rat(IntProd([j \in 1..i |-> 20 + Twentieths[j]]), 20 ^ i)

\* the highest value of the curve up to the i-th return
PeakAt(i) ==
    CHOOSE c \in {CurveAt(j) : j \in 1..i} :
        \A j \in 1..i : ~RLess(c, CurveAt(j))

DrawdownAt(i) == RSub(RDiv(CurveAt(i), PeakAt(i)), ROne)

\* C13: the max drawdown of a reported cell is the least value, over the
\* returns of the cell in the order they were collected (ascending date),
\* of curve / running peak - 1, the curve being the running product of
\* 1 + r, taken over the days where the quotient exists (peak not 0);
\* returns +0.10, -0.20, +0.05 give 0.88 / 1.10 - 1 = -1/5.
C13_MaxDrawdown ==
    cell.status = "reported" =>
        LET mdd == cell.results[1].mdd
            days == {i \in DOMAIN daily_rets : PeakAt(i).num # 0}
        IN  /\ mdd.nan <=> days = {}
            /\ days # {} =>
                   /\ \E i \in days : mdd.v = DrawdownAt(i)
                   /\ \A i \in days : ~RLess(DrawdownAt(i), mdd.v)
            /\ daily_rets = <<Rat(1, 10), Rat(-1, 5), Rat(1, 20)>> =>
                   mdd = [nan |-> FALSE, v |-> Rat(-1, 5)]

C13_Witness ==
    /\ cell.status = "reported"
    /\ daily_rets = <<Rat(1, 10), Rat(-1, 5), Rat(1, 20)>>
    /\ cell.results[1].mdd = [nan |-> FALSE, v |-> [num |-> -1, den |-> 5]]
    /\ CurveAt(2) = [num |-> 22, den |-> 25]
    /\ PeakAt(3) = [num |-> 11, den |-> 10]

-----------------------------------------------------------------------------
(* Properties of the cells evaluated in any order                          *)

\* the sequential run on the dataset and the arguments of the workers
SequentialRun == run_grid_search_v2(df, gcall)

\* the sequential run of the grid that holds the one cell (n, m)
SingleCellRun(n, m) ==
    run_grid_search_v2(df, [gcall EXCEPT !.n_values = <<n>>,
                                         !.m_values = <<m>>])

-----------------------------------------------------------------------------
(* Properties of the signal and of the order                               *)

Signals == {"CUT_RISK", "STOP_LOSS", "LONG", "SHORT", "NEUTRAL", "HOLD"}

\* the risk gate of a resolved row, from the ranks drawn (hundredths)
RawGate ==
    /\ res.raw.vix # None /\ res.raw.vix[1] <= 94
    /\ res.raw.fx # None /\ res.raw.fx[1] <= 96

RawIsNum == res.raw.z.k = "num"

RawIsInf == res.raw.z.k = "inf"

\* |z| is above ENTRY * STOP_LOSS_MULT = 7.095
RawBeyondStop == RawIsInf \/ (RawIsNum /\ Abs(res.raw.z.milli) > 7095)

\* C16: the signal is the first match of: gate fails, CUT_RISK; |z| >
\* ENTRY * STOP_LOSS_MULT, STOP_LOSS; z <= -ENTRY, LONG; z >= ENTRY, SHORT;
\* |z| <= EXIT, NEUTRAL; otherwise HOLD.  So one of the six signals is
\* returned for every (z, gate), CUT_RISK whenever the gate fails whatever
\* z is, and never LONG or SHORT when |z| is beyond the stop-loss level.
C16_Priority ==
    res.fn = "resolve" =>
        LET z == res.raw.z.milli
            sig == res.out.signal
        IN  /\ sig \in Signals
            /\ res.out.allowed = RawGate
            /\ ~RawGate => sig = "CUT_RISK"
            /\ RawBeyondStop => sig \notin {"LONG", "SHORT"}
            /\ sig =
                 (IF ~RawGate THEN "CUT_RISK"
                  ELSE IF RawBeyondStop THEN "STOP_LOSS"
                  ELSE IF RawIsNum /\ z <= -2150 THEN "LONG"
                  ELSE IF RawIsNum /\ z >= 2150 THEN "SHORT"
                  ELSE IF RawIsNum /\ Abs(z) <= 0 THEN "NEUTRAL"
                  ELSE "HOLD")

\* a row beyond the stop level whose gate fails: CUT_RISK, not STOP_LOSS
C16_Witness ==
    /\ res.fn = "resolve"
    /\ res.raw.z = [k |-> "num", milli |-> -7096]
    /\ res.raw.vix = Some(95)
    /\ res.raw.fx = Some(50)
    /\ res.out.signal = "CUT_RISK"

C18_HoldKeepsPosition ==
    (trade.status = "returned" /\ res.out.signal = "HOLD") =>
        /\ trade.current_pos =
             (IF trade.user_pos = "2" THEN "LONG"
              ELSE IF trade.user_pos = "3" THEN "SHORT" ELSE "NONE")
        /\ trade.target_pos = trade.current_pos
        /\ trade.orders = << >>
        /\ trade.line = 355

\* HOLD while LONG is held
C18_Witness ==
    /\ trade.status = "returned"
    /\ res.out.signal = "HOLD"
    /\ trade.user_pos = "2"
    /\ trade.target_pos = "LONG"
    /\ trade.orders = << >>

-----------------------------------------------------------------------------
(* Properties of the columns of calculate_signal                           *)

\* the residuals of the w rows before row t of the returned frame
PriorResid(t, w) == [j \in 1..w |-> res.df[t - w + j - 1].resid[1]]

\* rows t-w .. t of the returned frame all have a residual
PriorDefined(t, w) == t > w /\ \A j \in (t - w)..t : res.df[j].resid # None

SumOfSquares(xs, mu) ==
    RSum([j \in DOMAIN xs |-> RMul(RSub(xs[j], mu), RSub(xs[j], mu))])

\* C19: the z-score of row t is (residual_t - mean) / std, mean and std
\* being those of the residuals of the W_BETA rows that end at row t-1
\* (std with ddof = 1); the residual of row t is in neither.
C19_LaggedZ ==
    res.fn = "calculate_signal" =>
        \A t \in DOMAIN res.df :
            LET z == res.df[t].z
            IN  IF PriorDefined(t, BETA_W)
                THEN LET xs == PriorResid(t, BETA_W)
                         mu == RDiv(RSum(xs), Rat(BETA_W, 1))
                         ss == SumOfSquares(xs, mu)
                         d == RSub(res.df[t].resid[1], mu)
                     IN  IF ss.num # 0
                         THEN /\ z.k = "num"
                              /\ z.sign = Sgn(d.num)
                              /\ RMul(z.sq, ss) = RMul(RMul(d, d), Rat(BETA_W - 1, 1))
                         ELSE IF d.num # 0
                         THEN z.k = "inf" /\ z.sign = Sgn(d.num)
                         ELSE z.k = "nan"
                ELSE z.k = "nan"

\* a row with a finite z-score whose own residual would move the mean
C19_Witness ==
    /\ res.fn = "calculate_signal"
    /\ \E t \in DOMAIN res.df :
           /\ PriorDefined(t, BETA_W)
           /\ res.df[t].z.k = "num"
           /\ res.df[t].z.sign # 0
           /\ res.df[t].resid # res.df[t - BETA_W].resid

\* the combined series of the call, before any column is added
Combined == Concat(SortByDate(hist), res.args[1])

\* the row t that calculate_signal computes on rows 1 .. t alone
PrefixRow(t) == FullDf(SubSeq(Combined, 1, t - 1), Combined[t])[t]

\* C20: z, vix_rank and fx_shock of row t depend on rows 1 .. t only: the
\* run on the whole series and the run on its first t rows agree on them,
\* so changing any value of a later row leaves them as they are.
C20_NoLookAhead ==
    res.fn = "calculate_signal" =>
        \A t \in DOMAIN res.df :
            LET alone == PrefixRow(t)
            IN  /\ res.df[t].z = alone.z
                /\ res.df[t].vix_rank = alone.vix_rank
                /\ res.df[t].fx_shock = alone.fx_shock

\* a row before the last with all three outputs defined
C20_Witness ==
    /\ res.fn = "calculate_signal"
    /\ \E t \in DOMAIN res.df :
           /\ t < Len(res.df)
           /\ res.df[t].z.k = "num"
           /\ res.df[t].vix_rank # None
           /\ res.df[t].fx_shock # None
           /\ res.df[t + 1].resid # res.df[t].resid
           /\ res.df[t + 1].vix # res.df[t].vix
           /\ res.df[t + 1].rFX # res.df[t].rFX

\* the last row of the frame calculate_signal returned
LastRow == res.df[Len(res.df)]

\* the rolling std under the z-score of the last row is 0: the residuals
\* of the W rows before it are defined and all equal
ZeroResidStd ==
    /\ PriorDefined(Len(res.df), RES_W)
    /\ \A j \in 1..RES_W :
           PriorResid(Len(res.df), RES_W)[j] = PriorResid(Len(res.df), RES_W)[1]

\* the rolling variance of rS under the beta of the last row is 0: the
\* returns of its window are defined and all equal
ZeroReturnVar ==
    /\ Len(res.df) > BETA_W
    /\ \A j \in (Len(res.df) - BETA_W + 1)..Len(res.df) :
           res.df[j].rS # None /\ res.df[j].rS = LastRow.rS

\* C21: when the z-score of the last row has a zero denominator (the
\* rolling std of the residual is 0, or the rolling variance of the
\* external return is 0) calculate_signal returns and the signal is none
\* of LONG, SHORT and STOP_LOSS.
C21_DegenerateIsNoSignal ==
    (res.fn = "calculate_signal" /\ (ZeroResidStd \/ ZeroReturnVar)) =>
        res.out.signal \notin {"LONG", "SHORT", "STOP_LOSS"}

\* the rows a series needs before each output of its last row is defined
RowsForZ == BETA_W + RES_W + 1

RowsForVixRank == W_FILTER + 1

RowsForFxShock == 2 * W_FILTER + 1

\* C22: a series too short for the rolling windows leaves the z-score, the
\* volatility rank or the FX-shock rank of its last row undefined;
\* calculate_signal then returns, and the signal is never LONG or SHORT
\* (CUT_RISK when a rank is undefined).
C22_ShortHistory ==
    res.fn = "calculate_signal" =>
        /\ Len(res.df) < RowsForZ => LastRow.z.k = "nan"
        /\ Len(res.df) < RowsForVixRank => LastRow.vix_rank = None
        /\ Len(res.df) < RowsForFxShock => LastRow.fx_shock = None
        /\ (LastRow.vix_rank = None \/ LastRow.fx_shock = None) =>
               res.out.signal = "CUT_RISK"
        /\ (LastRow.z.k = "nan" \/ LastRow.vix_rank = None
                \/ LastRow.fx_shock = None) =>
               res.out.signal \notin {"LONG", "SHORT"}

\* a series one row short of a z-score and of an FX-shock rank whose
\* volatility rank is already defined
C22_Witness ==
    /\ res.fn = "calculate_signal"
    /\ Len(res.df) = RowsForZ - 1
    /\ LastRow.vix_rank # None
    /\ LastRow.resid # None
    /\ LastRow.z.k = "nan"
    /\ res.out.signal = "CUT_RISK"

-----------------------------------------------------------------------------
(* Properties of a day that holds a time of day twice                      *)

\* the samples of the day at the target time of a _pick_price call
AtTarget == SelectSeq(day, LAMBDA r : r.time = call.target)

\* C23: when the day holds several samples of the time looked up,
\* _pick_price returns the close of the last of them in the day's order.
C23_LastWins ==
    (call.fn = "_pick_price" /\ Len(AtTarget) > 1) =>
        frame.price = Some(AtTarget[Len(AtTarget)].close)

-----------------------------------------------------------------------------
(* Properties of the ranks of the risk gate                                *)

\* the rows of the W_FILTER-row window that ends at row t
RankWindow(t) == (t - W_FILTER + 1)..t

\* how many VIX values of the window ending at row t are <= the one of row t
VixAtMost(t) ==
    Cardinality({j \in RankWindow(t) : RLe(res.df[j].vix[1], res.df[t].vix[1])})

\* how many |fx_z| of the window ending at row t are <= the one of row t
FxAtMost(t) ==
    Cardinality({j \in RankWindow(t) : ~ZAbsLess(res.df[t].fx_z, res.df[j].fx_z)})

\* C24: vix_rank and fx_shock of a row are percentile ranks over the
\* W_FILTER-row window ending at the row before: the fraction of the
\* window's values that are less than or equal to the window's last value,
\* ties included.
C24_PercentileRank ==
    res.fn = "calculate_signal" =>
        \A t \in DOMAIN res.df :
            /\ res.df[t].vix_rank # None =>
                   res.df[t].vix_rank[1] = Rat(VixAtMost(t - 1), W_FILTER)
            /\ res.df[t].fx_shock # None =>
                   res.df[t].fx_shock[1] = Rat(FxAtMost(t - 1), W_FILTER)

-----------------------------------------------------------------------------
(* Properties of monitor()                                                 *)

\* the polls of the loop that sent an alert, in order
Alerts == SelectSeq(mon.log, LAMBDA p : p.alerted)

\* the clock of the last alert before poll i, 0 when there is none
LastAlertBefore(i) ==
    IF \E j \in 1..(i - 1) : mon.log[j].alerted
    THEN mon.log[CHOOSE j \in 1..(i - 1) :
                     /\ mon.log[j].alerted
                     /\ \A k \in (j + 1)..(i - 1) : ~mon.log[k].alerted].now
    ELSE 0

\* C25: two consecutive alerts of monitor() are at least cooldown_seconds
\* apart on the clock the loop reads; a poll that touches the moving
\* average alerts exactly when that long has passed since the alert before
\* (since 0 for the first); with one_shot the loop polls the quote once
\* and alerts at most once.
C25_Cooldown ==
    mon.status # "none" =>
        /\ \A i \in 2..Len(Alerts) :
               Alerts[i].now - Alerts[i - 1].now >= mon.cooldown_seconds
        /\ \A i \in DOMAIN mon.log :
               mon.log[i].alerted <=>
                   /\ mon.log[i].touched
                   /\ mon.log[i].now - LastAlertBefore(i) >= mon.cooldown_seconds
        /\ mon.one_shot =>
               /\ Len(mon.log) <= 1
               /\ Len(Alerts) <= 1
               /\ mon.status = "returned" <=> Len(mon.log) = 1
        /\ ~mon.one_shot => mon.status # "returned"

\* three touching polls: an alert, a touch inside the cooldown, an alert
C25_Witness ==
    /\ mon.status = "running"
    /\ mon.cooldown_seconds = 300
    /\ Len(mon.log) = 3
    /\ \A i \in 1..3 : mon.log[i].touched
    /\ mon.log[1].alerted
    /\ ~mon.log[2].alerted
    /\ mon.log[3].alerted

-----------------------------------------------------------------------------
(* Properties of _post_json                                                *)

\* the attempts a call may make
AttemptLimit == IF post.max_retries + 1 > 0 THEN post.max_retries + 1 ELSE 0

-----------------------------------------------------------------------------
(* Properties of the live strategy                                         *)

\* the sign of the 09:00 to 09:02 return of the prices run() used
ReturnSign ==
    IF live.p_0900 = None \/ live.p_0902 = None \/ live.p_0900[1] = 0 THEN 0
    ELSE IF live.p_0900[1] > 0
    THEN Sgn(live.p_0902[1] - live.p_0900[1])
    ELSE -Sgn(live.p_0902[1] - live.p_0900[1])

NetSign == IF live.foreigner_net = None THEN 0 ELSE Sgn(live.foreigner_net[1])

\* C27: outside test mode run() sends a buy order only when the prior-day
\* foreign net buying and the 09:00 to 09:02 return have the same non-zero
\* sign, for 069500 when both are positive and for 114800 when both are
\* negative; otherwise no order is sent; a sell order only follows a buy
\* order, for the same code and quantity.
C27_LiveOrders ==
    (live.status # "none" /\ ~live.test_mode) =>
        /\ Len(live.orders) <= 2
        /\ live.orders # << >> =>
               /\ live.orders[1].side = "buy"
               /\ live.orders[1].qty > 0
               /\ NetSign # 0
               /\ NetSign = ReturnSign
               /\ live.orders[1].code = IF NetSign > 0 THEN "069500" ELSE "114800"
        /\ (NetSign = 0 \/ NetSign # ReturnSign) => live.orders = << >>
        /\ Len(live.orders) = 2 =>
               /\ live.orders[2].side = "sell"
               /\ live.orders[2].code = live.orders[1].code
               /\ live.orders[2].qty = live.orders[1].qty
        /\ live.status = "waiting" => Len(live.orders) = 1

\* net selling and a falling index: the inverse ETF bought and sold
C27_Witness ==
    /\ live.status = "returned"
    /\ ~live.test_mode
    /\ NetSign = -1
    /\ ReturnSign = -1
    /\ Len(live.orders) = 2
    /\ live.orders[1] = [side |-> "buy", code |-> "114800", qty |-> 100]
    /\ live.orders[2] = [side |-> "sell", code |-> "114800", qty |-> 100]

-----------------------------------------------------------------------------
(* Properties of _find_prev_foreign_net                                    *)

\* the days before base_date within the lookback for which the client has a number
DaysWithNet ==
    {d \in FetchDates : /\ d < fnet.base_date
                        /\ d >= fnet.base_date - LookbackDays
                        /\ fnet.client[d] # None}

NearestNet ==
    IF DaysWithNet = {} THEN None
    ELSE fnet.client[CHOOSE d \in DaysWithNet : \A e \in DaysWithNet : e <= d]

\* C28: _find_prev_foreign_net returns the value of the nearest earlier day
\* within lookback_days that has a value (None if there is none), and with
\* the shared cache no date is fetched twice over a backtest, whether its
\* cached value is a number or None.
C28_CachedLookup ==
    fnet.status = "looked_up" =>
        /\ fnet.out = NearestNet
        /\ \A i, j \in 1 .. Len(fnet.fetches) :
               fnet.fetches[i] = fnet.fetches[j] => i = j
        /\ \A d \in FetchDates :
               InCache(fnet.cache, d) <=>
                   \E i \in 1 .. Len(fnet.fetches) : fnet.fetches[i] = d
        /\ \A d \in FetchDates :
               InCache(fnet.cache, d) => fnet.cache[d][1] = fnet.client[d]

\* a later day looks across a date cached as None without fetching it again
C28_Witness ==
    /\ fnet.status = "looked_up"
    /\ fnet.base_date = 3
    /\ fnet.cache[1] = <<None>>
    /\ fnet.cache[2] = <<None>>
    /\ fnet.fetches = <<1, 0, 2>>
    /\ fnet.out = None

-----------------------------------------------------------------------------
(* Properties of calculate_signal as a function of the inputs of today     *)

\* other values of VIX_t-1 and log FX_t for the row of today
OtherRiskInputs == {<<15, 0>>, <<30, 3>>, <<100, 1>>, <<20, -2>>, <<0, 7>>}

\* the call repeated with the two risk inputs of today replaced
WithRiskInputs(v) ==
    calculate_signal(hist, [res.args[1] EXCEPT !.vix = Some(v[1]),
                                               !.log_fx = Some(v[2])])

\* C29: two calls of calculate_signal that differ only in vix_prev and
\* fx_now (same history, kospi_now and spx_prev, all inputs defined) return
\* the same z, vix_rank, fx_shock, allowed flag and signal.
C29_RiskInputsOfTodayUnused ==
    (res.fn = "calculate_signal" /\ res.args[1].vix # None) =>
        \A v \in OtherRiskInputs : WithRiskInputs(v).out = res.out

\* a call that trades past an open gate although other risk inputs of
\* today would move today's own VIX rank and FX return
C29_Witness ==
    /\ res.fn = "calculate_signal"
    /\ res.args[1].vix # None
    /\ res.out.allowed
    /\ res.out.z.k = "num"
    /\ res.out.signal \in {"LONG", "SHORT"}
    /\ \E v \in OtherRiskInputs :
           /\ LastRow.vix # WithRiskInputs(v).df[Len(res.df)].vix
           /\ LastRow.rFX # WithRiskInputs(v).df[Len(res.df)].rFX
           /\ LastRow.fx_z # WithRiskInputs(v).df[Len(res.df)].fx_z

-----------------------------------------------------------------------------
(* Properties of the rows of the grid search                               *)

DatasetDates == {df[j].date : j \in DOMAIN df}

\* C30: for every row reported by the grid search the max drawdown is <= 0
\* and the trade count is between 1 and the number of distinct dates of the
\* dataset, also where a short trade loses 100% or more.
C30_RowBounds ==
    gret.status = "returned" =>
        \A i \in DOMAIN gret.table :
            /\ ~gret.table[i].mdd.nan
            /\ ~RLess(RZero, gret.table[i].mdd.v)
            /\ gret.table[i].trades >= 1
            /\ gret.table[i].trades <= Cardinality(DatasetDates)

====
